---- MODULE Spec2Model ----
(***************************************************************************)
(* Model of AuthService (src/app/auth/services/auth.service.ts): the       *)
(* session state, the auth cache, the auto-refresh timer and the in-flight *)
(* HTTP requests of login, register and check-status.                      *)
(*                                                                         *)
(* Time is Date.now() in milliseconds. The clock advances one timer period *)
(* at a time; the timer callback of setupTokenAutoRefresh fires once per   *)
(* period (and once at delay 0).                                           *)
(***************************************************************************)
EXTENDS Integers, FiniteSets, Sequences, Bags, TLC

VARIABLES
    _authStatus,    \* AuthService._authStatus signal
    _user,          \* AuthService._user signal
    _token,         \* AuthService._token signal
    storage,        \* localStorage item 'token'
    authCache,      \* AuthService.authCache {isValid, lastChecked, tokenExpiration}
    now,            \* Date.now()
    tickDue,        \* the timer(0, 60000) emission for the current period is queued
    pending,        \* HTTP requests in flight, per endpoint
    last,           \* history: what the most recent step did
    okSince,        \* history: instant of the last successful check not followed by
                    \*          a logout, a failure or an invalidation ({} if none)
    hitSince,       \* history: a checkStatus() was answered from the cache since then
    sinceLogout,    \* history: logout() was called and no login, register or
                    \*          checkStatus call was made since
    logoutRun,      \* history: number of consecutive logout() calls just made (capped)
    earlier,        \* history: the response processed most recently while another
                    \*          request was still in flight
    page,           \* the signals of the mounted login or register page
    failure,        \* the HttpErrorResponse the backend answers the page with
    productsCache,  \* ProductsService.productsCache: Map key -> ProductsResponse
    productCache,   \* ProductsService.productCache: Map id or slug -> Product
    catalogue,      \* the products as the backend holds them
    requests,       \* HTTP requests of the products service in flight (a bag)
    job,            \* the createProduct / updateProduct / uploadImage in progress
    move            \* history: what the most recent step of the products service did

svc == <<_authStatus, _user, _token, storage, authCache>>
ui == <<page, failure>>
shop == <<productsCache, productCache, catalogue, requests, job, move>>
vars == <<_authStatus, _user, _token, storage, authCache, now, tickDue, pending,
          last, okSince, hitSince, sinceLogout, logoutRun, earlier, page, failure,
          productsCache, productCache, catalogue, requests, job, move>>

-----------------------------------------------------------------------------
(* Program constants *)

CACHE_DURATION == 5 * 60 * 1000
TOKEN_REFRESH_THRESHOLD == 10 * 60 * 1000
TimerPeriod == 60000

(* Bounds of the model *)

MaxMinutes == 8          \* timer periods the clock runs for
MaxPending == 2          \* HTTP requests in flight at once

-----------------------------------------------------------------------------
(* Values *)

Null == "null"           \* JavaScript null (signals, localStorage.getItem)
NoExp == {}              \* tokenExpiration: null; a known expiration e is {e}

StartTime == 1000 * TimerPeriod      \* Date.now() at construction
EndTime == StartTime + MaxMinutes * TimerPeriod

\* The JWTs the backend hands out. Each is "header.payload.signature"; Payload
\* is what JSON.parse(atob(token.split('.')[1])) yields: decodes = FALSE when
\* that throws, exp = 0 when the payload has no (truthy) exp claim, otherwise
\* exp in seconds since the epoch.
Tokens == {"jwt.bad", "jwt.old", "jwt.short", "jwt.long"}

Payload(token) ==
    CASE token = "jwt.old"   -> [decodes |-> TRUE, exp |-> (StartTime - TimerPeriod) \div 1000]
      [] token = "jwt.short" -> [decodes |-> TRUE, exp |-> (StartTime + 2 * TimerPeriod) \div 1000]
      [] token = "jwt.long"  -> [decodes |-> TRUE, exp |-> (StartTime + 16 * TimerPeriod) \div 1000]
      [] OTHER               -> [decodes |-> FALSE, exp |-> 0]

Users == {"u1", "u2"}

\* AuthResponse bodies {token, user} the backend may answer with.
AuthResponses ==
    { [token |-> "jwt.bad",   user |-> "u1"],
      [token |-> "jwt.old",   user |-> "u2"],
      [token |-> "jwt.short", user |-> "u1"],
      [token |-> "jwt.long",  user |-> "u2"] }

HttpError == [token |-> Null, user |-> Null]    \* the request failed

\* HttpErrorResponse of a failed request: its status and the kind of value
\* its body carries as error.error.message (no message, a string, or a list
\* of strings such as a validation pipe reports).
HttpErrors ==
    [ status  : {0, 400, 401, 404, 409, 422, 429, 500},
      message : {"absent", "string", "array"} ]

NoResponse == [token |-> "-", user |-> "-"]     \* history: no response yet

InvalidCache == [isValid |-> FALSE, lastChecked |-> 0, tokenExpiration |-> NoExp]

-----------------------------------------------------------------------------
(* The service's methods, as functions of the service state                *)
(*   s = [_authStatus, _user, _token, storage, authCache]  and the clock t *)

Cur == [_authStatus |-> _authStatus, _user |-> _user, _token |-> _token,
        storage |-> storage, authCache |-> authCache]

Install(s) ==
    /\ _authStatus' = s._authStatus
    /\ _user' = s._user
    /\ _token' = s._token
    /\ storage' = s.storage
    /\ authCache' = s.authCache

\* Faulty variant: the exp claim is kept in seconds.
extractTokenExpiration_Seconds(token) ==
    IF Payload(token).decodes /\ Payload(token).exp # 0
    THEN {Payload(token).exp}
    ELSE NoExp

extractTokenExpiration(token) ==
    IF Payload(token).decodes /\ Payload(token).exp # 0
    THEN {Payload(token).exp * 1000}
    ELSE NoExp

\* Faulty variant: the invalidation keeps the instant of the last check.
invalidateCache_KeepTimestamp(s) ==
    [s EXCEPT !.authCache.isValid = FALSE, !.authCache.tokenExpiration = NoExp]

invalidateCache(s) ==
    [s EXCEPT !.authCache = [isValid |-> FALSE, lastChecked |-> 0,
                             tokenExpiration |-> NoExp]]

\* Faulty variant: the check is recorded without its instant.
updateCache_NoTimestamp(s, isValid, t) ==
    [s EXCEPT !.authCache.isValid = isValid]

updateCache(s, isValid, t) ==
    [s EXCEPT !.authCache.isValid = isValid, !.authCache.lastChecked = t]

\* Faulty variant: a token without a known expiration counts as expired.
isTokenExpiredLocally_UnknownIsExpired(s, t) ==
    IF s.authCache.tokenExpiration = NoExp
    THEN TRUE
    ELSE \E e \in s.authCache.tokenExpiration : t >= e

isTokenExpiredLocally(s, t) ==
    IF s.authCache.tokenExpiration = NoExp
    THEN FALSE
    ELSE \E e \in s.authCache.tokenExpiration : t >= e

\* Faulty variant: a remaining lifetime of exactly the threshold is not near.
isTokenNearExpiration_Strict(s, t) ==
    IF s.authCache.tokenExpiration = NoExp
    THEN FALSE
    ELSE \E e \in s.authCache.tokenExpiration : e - t < TOKEN_REFRESH_THRESHOLD

isTokenNearExpiration(s, t) ==
    IF s.authCache.tokenExpiration = NoExp
    THEN FALSE
    ELSE \E e \in s.authCache.tokenExpiration : e - t <= TOKEN_REFRESH_THRESHOLD

\* Faulty variant: the cache is trusted whatever the token's expiration.
isCacheValid_IgnoresExpiration(s, t) ==
    /\ s.authCache.isValid
    /\ t - s.authCache.lastChecked < CACHE_DURATION

isCacheValid(s, t) ==
    /\ s.authCache.isValid
    /\ t - s.authCache.lastChecked < CACHE_DURATION
    /\ ~isTokenNearExpiration(s, t)

\* Faulty variant: the status goes back to its initial value.
logout_BackToChecking(s) ==
    invalidateCache([s EXCEPT !._user = Null, !._token = Null,
                              !._authStatus = "checking",
                              !.storage = Null])

\* Faulty variant: the token signal is not cleared.
logout_KeepTokenSignal(s) ==
    invalidateCache([s EXCEPT !._user = Null,
                              !._authStatus = "not-authenticated",
                              !.storage = Null])

\* Faulty variant: the cache is left as it is.
logout_KeepCache(s) ==
    [s EXCEPT !._user = Null, !._token = Null,
              !._authStatus = "not-authenticated",
              !.storage = Null]

\* Faulty variant: the persisted token is left in place.
logout_KeepStorage(s) ==
    invalidateCache([s EXCEPT !._user = Null, !._token = Null,
                              !._authStatus = "not-authenticated"])

logout(s) ==
    invalidateCache([s EXCEPT !._user = Null, !._token = Null,
                              !._authStatus = "not-authenticated",
                              !.storage = Null])

\* Faulty variant: the token signal is not set.
handleAuthSuccess_NoTokenSignal(s, resp) ==
    [s EXCEPT !._user = resp.user, !._authStatus = "authenticated",
              !.storage = resp.token,
              !.authCache.tokenExpiration = extractTokenExpiration(resp.token)]

handleAuthSuccess(s, resp) ==
    [s EXCEPT !._user = resp.user, !._authStatus = "authenticated",
              !._token = resp.token, !.storage = resp.token,
              !.authCache.tokenExpiration = extractTokenExpiration(resp.token)]

handleAuthError(s) == invalidateCache(logout(s))

\* Faulty variant: the cache is not refreshed after the session is installed.
authSucceeded_NoCacheUpdate(s, resp, t) == handleAuthSuccess(s, resp)

\* login / register, map(): handleAuthSuccess(resp); updateCache(true)
authSucceeded(s, resp, t) == updateCache(handleAuthSuccess(s, resp), TRUE, t)

\* Faulty variant: only the cache is invalidated.
handleLoginError_NoLogout(s) == invalidateCache(s)

\* handleLoginError / handleRegisterError: logout(); invalidateCache()
handleLoginError(s) == invalidateCache(logout(s))
handleRegisterError(s) == invalidateCache(logout(s))

\* Faulty variant: a response that arrives after a logout is dropped.
checkSucceeded_DroppedAfterLogout(s, resp, t) ==
    IF s._authStatus = "not-authenticated"
    THEN s
    ELSE updateCache(handleAuthSuccess(s, resp), TRUE, t)

\* What the Observable of login() delivers for a failed request: the
\* {success: false, message} value, or an error when handleLoginError throws.
\* In the 401 and 400 branches a truthy error.error.message is lower-cased
\* with message.toLowerCase(), which only a string has.
loginErrorSignal(err) ==
    IF err.status \in {401, 400} /\ err.message = "array"
    THEN "error"
    ELSE "failure"

\* The same for register(): handleRegisterError lower-cases the message in
\* its 400 branch only.
registerErrorSignal(err) ==
    IF err.status = 400 /\ err.message = "array"
    THEN "error"
    ELSE "failure"

\* checkStatus, map(): isValid = handleAuthSuccess(resp) (always true); updateCache(isValid)
checkSucceeded(s, resp, t) == updateCache(handleAuthSuccess(s, resp), TRUE, t)

\* Faulty variant: the failure only marks the cache.
checkFailed_NoLogout(s, t) == updateCache(invalidateCache(s), FALSE, t)

\* checkStatus, catchError(): handleAuthError(error); updateCache(false)
checkFailed(s, t) == updateCache(handleAuthError(s), FALSE, t)

\* The computed signal authStatus.
authStatus(s) ==
    IF s._authStatus = "checking" THEN "checking"
    ELSE IF s._user # Null THEN "authenticated"
    ELSE "not-authenticated"

\* Faulty variant: without a persisted token the call returns false and
\* leaves the session as it is.
checkStatus_NoTokenNoLogout(s, t) ==
    IF s.storage = Null
    THEN [s |-> s, path |-> "notoken", net |-> 0, ret |-> "false"]
    ELSE IF isCacheValid(s, t)
    THEN [s |-> s, path |-> "cache", net |-> 0,
          ret |-> IF s.authCache.isValid THEN "true" ELSE "false"]
    ELSE IF isTokenExpiredLocally(s, t)
    THEN [s |-> invalidateCache(logout(s)), path |-> "expired", net |-> 0, ret |-> "false"]
    ELSE [s |-> s, path |-> "network", net |-> 1, ret |-> "pending"]

\* checkStatus() up to the point where it returns its Observable:
\*   s    the service state it leaves,
\*   path which return statement was taken,
\*   net  the number of HTTP requests issued,
\*   ret  the value of an of(...) Observable, "pending" for the HTTP one.
checkStatus(s, t) ==
    IF s.storage = Null
    THEN [s |-> invalidateCache(logout(s)), path |-> "notoken", net |-> 0, ret |-> "false"]
    ELSE IF isCacheValid(s, t)
    THEN [s |-> s, path |-> "cache", net |-> 0,
          ret |-> IF s.authCache.isValid THEN "true" ELSE "false"]
    ELSE IF isTokenExpiredLocally(s, t)
    THEN [s |-> invalidateCache(logout(s)), path |-> "expired", net |-> 0, ret |-> "false"]
    ELSE [s |-> s, path |-> "network", net |-> 1, ret |-> "pending"]

\* Faulty variant: the cache is consulted as it stands.
forceAuthCheck_NoInvalidate(s, t) == checkStatus(s, t)

\* forceAuthCheck(): invalidateCache(); return checkStatus()
forceAuthCheck(s, t) == checkStatus(invalidateCache(s), t)

\* Faulty variant: the refresh waits until the token has expired.
autoRefresh_OnlyWhenExpired(s, t) ==
    IF s._authStatus = "authenticated" /\ isTokenExpiredLocally(s, t)
    THEN checkStatus(invalidateCache(s), t)
    ELSE [s |-> s, path |-> "none", net |-> 0, ret |-> "none"]

\* Faulty variant: the refresh does not invalidate the cache first.
autoRefresh_NoInvalidate(s, t) ==
    IF s._authStatus = "authenticated" /\ isTokenNearExpiration(s, t)
    THEN checkStatus(s, t)
    ELSE [s |-> s, path |-> "none", net |-> 0, ret |-> "none"]

\* Faulty variant: the refresh runs on every emission.
autoRefresh_Unconditional(s, t) == checkStatus(invalidateCache(s), t)

\* Faulty variant: the refresh forgets the check but keeps the expiration.
autoRefresh_KeepExpiration(s, t) ==
    IF s._authStatus = "authenticated" /\ isTokenNearExpiration(s, t)
    THEN checkStatus([s EXCEPT !.authCache.isValid = FALSE,
                               !.authCache.lastChecked = 0], t)
    ELSE [s |-> s, path |-> "none", net |-> 0, ret |-> "none"]

\* The timer callback of setupTokenAutoRefresh.
autoRefresh(s, t) ==
    IF s._authStatus = "authenticated" /\ isTokenNearExpiration(s, t)
    THEN checkStatus(invalidateCache(s), t)
    ELSE [s |-> s, path |-> "none", net |-> 0, ret |-> "none"]

\* Faulty variant: reading the snapshot counts as a check.
getCacheInfo_Restamps(s, t) ==
    [s |-> [s EXCEPT !.authCache.lastChecked = t],
     info |-> [isValid |-> s.authCache.isValid,
               lastChecked |-> s.authCache.lastChecked,
               tokenExpiration |-> s.authCache.tokenExpiration,
               timeSinceLastCheck |-> t - s.authCache.lastChecked]]

\* getCacheInfo(): s the service state it leaves, info the object it returns
\* (a copy of the three cache fields and the time since the last check).
getCacheInfo(s, t) ==
    [s |-> s,
     info |-> [isValid |-> s.authCache.isValid,
               lastChecked |-> s.authCache.lastChecked,
               tokenExpiration |-> s.authCache.tokenExpiration,
               timeSinceLastCheck |-> t - s.authCache.lastChecked]]

-----------------------------------------------------------------------------
(* JavaScript strings: the String methods the error handlers use. Characters  *)
(* are counted from 1; the letters are the ASCII letters and the only white   *)
(* space is the blank.                                                        *)

UpperCaseLetters == "ABCDEFGHIJKLMNOPQRSTUVWXYZ"
LowerCaseLetters == "abcdefghijklmnopqrstuvwxyz"

CharAt(str, i) == IF 1 <= i /\ i <= Len(str) THEN SubSeq(str, i, i) ELSE ""

\* str.slice(n): what follows the first n characters.
slice(str, n) == IF n < Len(str) THEN SubSeq(str, n + 1, Len(str)) ELSE ""

Chars(str) == {CharAt(str, i) : i \in 1..Len(str)}

LowerOf ==
    [c \in Chars(UpperCaseLetters) |->
        CharAt(LowerCaseLetters,
               CHOOSE i \in 1..Len(UpperCaseLetters) : CharAt(UpperCaseLetters, i) = c)]

UpperOf ==
    [c \in Chars(LowerCaseLetters) |->
        CharAt(UpperCaseLetters,
               CHOOSE i \in 1..Len(LowerCaseLetters) : CharAt(LowerCaseLetters, i) = c)]

\* Both conversions work character by character; the string is split in
\* halves to keep the recursion shallow.
RECURSIVE toLowerCase(_)
toLowerCase(str) ==
    IF Len(str) = 0 THEN ""
    ELSE IF Len(str) = 1
    THEN (IF str \in DOMAIN LowerOf THEN LowerOf[str] ELSE str)
    ELSE toLowerCase(SubSeq(str, 1, Len(str) \div 2))
             \o toLowerCase(SubSeq(str, Len(str) \div 2 + 1, Len(str)))

RECURSIVE toUpperCase(_)
toUpperCase(str) ==
    IF Len(str) = 0 THEN ""
    ELSE IF Len(str) = 1
    THEN (IF str \in DOMAIN UpperOf THEN UpperOf[str] ELSE str)
    ELSE toUpperCase(SubSeq(str, 1, Len(str) \div 2))
             \o toUpperCase(SubSeq(str, Len(str) \div 2 + 1, Len(str)))

includes(str, part) ==
    \E i \in 1..(Len(str) - Len(part) + 1) : SubSeq(str, i, i + Len(part) - 1) = part

endsWith(str, part) ==
    /\ Len(str) >= Len(part)
    /\ SubSeq(str, Len(str) - Len(part) + 1, Len(str)) = part

\* str.trim(): from the first to the last character that is not a blank.
trim(str) ==
    LET inked == {i \in 1..Len(str) : CharAt(str, i) # " "} IN
    IF inked = {} THEN ""
    ELSE SubSeq(str, CHOOSE i \in inked : \A j \in inked : i <= j,
                     CHOOSE i \in inked : \A j \in inked : i >= j)

\* Regular expressions, as far as cleanErrorMessage uses them: a sequence of
\* atoms and the i flag (every one of them has the g flag).
\*   Lit(s)          the characters of s
\*   Optional(s)     s?
\*   OneOrMoreNot(c) [^c]+     Group(c)  ([^c]+), the capture group $1
\*   ZeroOrMoreNot(c) [^c]*
Lit(s) == [t |-> "lit", s |-> s, g |-> FALSE]
Optional(s) == [t |-> "opt", s |-> s, g |-> FALSE]
OneOrMoreNot(c) == [t |-> "some", s |-> c, g |-> FALSE]
Group(c) == [t |-> "some", s |-> c, g |-> TRUE]
ZeroOrMoreNot(c) == [t |-> "any", s |-> c, g |-> FALSE]

RegExp(atoms, flagI) == [atoms |-> atoms, i |-> flagI]

\* The number of characters of str from position i on that differ from c, up
\* to the first c or the end of the string.
RunOfNot(str, i, c) ==
    LET stops == {j \in i..Len(str) : CharAt(str, j) = c} IN
    IF stops = {} THEN Len(str) + 1 - i
    ELSE (CHOOSE j \in stops : \A k \in stops : j <= k) - i

LitAt(str, i, s) ==
    /\ i + Len(s) - 1 <= Len(str)
    /\ SubSeq(str, i, i + Len(s) - 1) = s

\* The match of atoms k.. at position i of str: ok, the position after the
\* match, and the text of the capture group. A negated class is always followed
\* by the character it excludes, so the longest run is the only candidate.
RECURSIVE matchAt(_, _, _, _, _)
matchAt(str, i, atoms, k, group) ==
    IF k > Len(atoms) THEN [ok |-> TRUE, end |-> i, group |-> group]
    ELSE LET a == atoms[k]
             n == RunOfNot(str, i, a.s)
             fail == [ok |-> FALSE, end |-> i, group |-> ""]
         IN CASE a.t = "lit" ->
                    IF LitAt(str, i, a.s)
                    THEN matchAt(str, i + Len(a.s), atoms, k + 1, group)
                    ELSE fail
              [] a.t = "opt" ->
                    IF LitAt(str, i, a.s)
                    THEN matchAt(str, i + Len(a.s), atoms, k + 1, group)
                    ELSE matchAt(str, i, atoms, k + 1, group)
              [] a.t = "some" ->
                    IF n >= 1
                    THEN matchAt(str, i + n, atoms, k + 1,
                                 IF a.g THEN SubSeq(str, i, i + n - 1) ELSE group)
                    ELSE fail
              [] a.t = "any" ->
                    matchAt(str, i + n, atoms, k + 1, group)

\* The replacement text: "$1" stands for the capture group.
Substitute(newText, group) ==
    IF LitAt(newText, 1, "$1")
    THEN group \o slice(newText, 2)
    ELSE newText

\* str.replace(re, newText) from position i on; subject is str, lower-cased
\* when the expression has the i flag (its literals are then written in lower
\* case; none of those expressions has a group). Every expression starts with
\* literal text, which is looked for first.
RECURSIVE replaceFrom(_, _, _, _, _)
replaceFrom(str, subject, i, re, newText) ==
    LET found == {j \in i..(Len(str) + 1 - Len(re.atoms[1].s)) :
                     /\ SubSeq(subject, j, j + Len(re.atoms[1].s) - 1) = re.atoms[1].s
                     /\ matchAt(subject, j, re.atoms, 1, "").ok}
        first == CHOOSE j \in found : \A k \in found : j <= k
        m     == matchAt(subject, first, re.atoms, 1, "")
    IN IF found = {} THEN slice(str, i - 1)
       ELSE SubSeq(str, i, first - 1)
                \o Substitute(newText, m.group)
                \o replaceFrom(str, subject, m.end, re, newText)

\* str.replace(re, newText), given str in lower case as well.
replace(str, lower, re, newText) ==
    replaceFrom(str, IF re.i THEN lower ELSE str, 1, re, newText)

-----------------------------------------------------------------------------
(* The error translator of the service *)

AlreadyRegistered == "This email address is already registered."

Backtick == CharAt("`'", 1)

\* The replace() calls of cleanErrorMessage, in their order.
Substitutions ==
    << [re |-> RegExp(<<Lit("Key ("), OneOrMoreNot(")"), Lit(")=("),
                        OneOrMoreNot(")"), Lit(")")>>, FALSE),
        newText |-> "This email address"],
       [re |-> RegExp(<<Lit("already exists"), Optional(".")>>, FALSE),
        newText |-> "is already registered."],
       [re |-> RegExp(<<Lit("duplicate key error")>>, TRUE),
        newText |-> AlreadyRegistered],
       [re |-> RegExp(<<Lit("E11000"), ZeroOrMoreNot("."), Lit(".")>>, FALSE),
        newText |-> AlreadyRegistered],
       [re |-> RegExp(<<Lit("validation failed")>>, TRUE),
        newText |-> "Please check your information."],
       [re |-> RegExp(<<Lit("validationerror:")>>, TRUE),
        newText |-> ""],
       [re |-> RegExp(<<Lit("Path " \o Backtick), Group(Backtick),
                        Lit(Backtick \o " is required")>>, FALSE),
        newText |-> "$1 is required."],
       [re |-> RegExp(<<Lit("is not a valid email")>>, TRUE),
        newText |-> "Please enter a valid email address."],
       [re |-> RegExp(<<Lit("password too short")>>, TRUE),
        newText |-> "Password must be at least 6 characters long."],
       [re |-> RegExp(<<Lit("invalid email format")>>, TRUE),
        newText |-> "Please enter a valid email address."],
       [re |-> RegExp(<<Lit("user not found")>>, TRUE),
        newText |-> "No account found with this email address."],
       [re |-> RegExp(<<Lit("unauthorized access")>>, TRUE),
        newText |-> "Invalid credentials."],
       [re |-> RegExp(<<Lit("internal server error")>>, TRUE),
        newText |-> "We're experiencing technical difficulties."],
       [re |-> RegExp(<<Lit("network error")>>, TRUE),
        newText |-> "Unable to connect. Please check your internet connection."] >>

\* The substitutions from the k-th on, applied to str (lower is str in lower
\* case; none of the expressions matches in an empty string).
RECURSIVE substituted(_, _, _)
RECURSIVE substitutedNext(_, _, _, _)
substituted(str, lower, k) ==
    IF k > Len(Substitutions) \/ Len(str) = 0 THEN str
    ELSE substitutedNext(str, lower, k,
             replace(str, lower, Substitutions[k].re, Substitutions[k].newText))

substitutedNext(str, lower, k, replaced) ==
    IF replaced = str
    THEN substituted(str, lower, k + 1)
    ELSE substituted(replaced, toLowerCase(replaced), k + 1)

\* const cleanMessage = message.replace(...)....trim()
cleanMessage(message) == trim(substituted(message, toLowerCase(message), 1))

\* const capitalized = cleanMessage.charAt(0).toUpperCase() + cleanMessage.slice(1)
capitalized(cleaned) == toUpperCase(CharAt(cleaned, 1)) \o slice(cleaned, 1)

\* The return statement: capitalized, with a full stop unless it ends in
\* '.', '!' or '?'.
punctuated(str) ==
    IF endsWith(str, ".") \/ endsWith(str, "!") \/ endsWith(str, "?")
    THEN str
    ELSE str \o "."

\* Faulty variant: the text is returned as capitalized.
cleanErrorMessage_AsCapitalized(message) == capitalized(cleanMessage(message))

cleanErrorMessage(message) == punctuated(capitalized(cleanMessage(message)))

\* An HttpErrorResponse in full: status, what error.error.message is (see
\* HttpErrors), text, the message when it is a string (otherwise ""), and
\* detail, the string error.error.error ("" when the body has none).
HasMessage(error) ==
    \/ error.message = "array"
    \/ (error.message = "string" /\ error.text # "")

InvalidCredentials ==
    "Invalid email or password. Please double-check your credentials and try again."
NoAccountFound ==
    "No account found with this email. Please check your email address or create a new account."
TechnicalDifficulties ==
    "We're experiencing technical difficulties. Please try again in a few moments."
UnableToConnect ==
    "Unable to connect to our servers. Please check your internet connection and try again."
EmailRegistered ==
    "This email is already registered. Please try signing in instead or use a different email address."
CheckAllFields == "Please check that all fields are filled correctly."

NoFailure == [status |-> 0, message |-> "absent", text |-> "", detail |-> ""]

\* a || b on strings
OrElse(a, b) == IF a # "" THEN a ELSE b

\* handleLoginError, the 401 branch
loginMessage401(error) ==
    LET errorMessage   == toLowerCase(error.text)
        cleanedMessage == cleanErrorMessage(error.text)
    IN IF HasMessage(error)
       THEN IF includes(errorMessage, "password") /\ includes(errorMessage, "incorrect")
            THEN "Incorrect password. Please check your password and try again."
            ELSE IF includes(errorMessage, "user") /\ includes(errorMessage, "not found")
            THEN NoAccountFound
            ELSE IF \/ includes(errorMessage, "invalid credentials")
                    \/ includes(errorMessage, "unauthorized")
            THEN InvalidCredentials
            ELSE OrElse(cleanedMessage, InvalidCredentials)
       ELSE InvalidCredentials

\* handleLoginError, the 400 branch
loginMessage400(error) ==
    LET errorMessage   == toLowerCase(error.text)
        cleanedMessage == cleanErrorMessage(error.text)
    IN IF HasMessage(error)
       THEN IF includes(errorMessage, "email") /\ includes(errorMessage, "invalid")
            THEN "Please enter a valid email address."
            ELSE IF includes(errorMessage, "password") /\ includes(errorMessage, "required")
            THEN "Password is required. Please enter your password."
            ELSE IF includes(errorMessage, "email") /\ includes(errorMessage, "required")
            THEN "Email is required. Please enter your email address."
            ELSE OrElse(cleanedMessage, CheckAllFields)
       ELSE CheckAllFields

\* Faulty variant: a failure without a response gets the default message.
loginErrorMessage_NoConnectionCase(error) ==
    cleanErrorMessage(
        IF error.status = 401 THEN loginMessage401(error)
        ELSE IF error.status = 400 THEN loginMessage400(error)
        ELSE IF error.status = 404 THEN NoAccountFound
        ELSE IF error.status = 429
        THEN "Too many login attempts. Please wait a few minutes before trying again."
        ELSE IF error.status >= 500 THEN TechnicalDifficulties
        ELSE "We couldn't sign you in. Please try again.")

\* handleLoginError: the message of the {success: false, message} it returns
\* when it returns one (see loginErrorSignal).
loginErrorMessage(error) ==
    cleanErrorMessage(
        IF error.status = 401 THEN loginMessage401(error)
        ELSE IF error.status = 400 THEN loginMessage400(error)
        ELSE IF error.status = 404 THEN NoAccountFound
        ELSE IF error.status = 429
        THEN "Too many login attempts. Please wait a few minutes before trying again."
        ELSE IF error.status >= 500 THEN TechnicalDifficulties
        ELSE IF error.status = 0 THEN UnableToConnect
        ELSE "We couldn't sign you in. Please try again.")

\* Faulty variant: a duplicate email is reported in the backend's words.
registerMessage400_CleanedDuplicate(error) ==
    LET errorMessage   == toLowerCase(error.text)
        cleanedMessage == cleanErrorMessage(error.text)
    IN IF HasMessage(error)
       THEN IF \/ includes(errorMessage, "validation")
               \/ includes(errorMessage, "invalid")
            THEN IF includes(errorMessage, "email")
                 THEN "Please enter a valid email address."
                 ELSE IF includes(errorMessage, "password")
                 THEN "Password must be at least 6 characters long."
                 ELSE IF \/ includes(errorMessage, "fullname")
                         \/ includes(errorMessage, "name")
                 THEN "Please enter your full name."
                 ELSE OrElse(cleanedMessage, CheckAllFields)
            ELSE OrElse(cleanedMessage, "Please verify your information and try again.")
       ELSE IF \/ includes(error.detail, "duplicate")
               \/ includes(error.detail, "already exists")
               \/ includes(error.detail, "E11000")
       THEN EmailRegistered
       ELSE "Please check that all required fields are filled correctly."

\* handleRegisterError, the 400 branch
registerMessage400(error) ==
    LET errorMessage   == toLowerCase(error.text)
        cleanedMessage == cleanErrorMessage(error.text)
    IN IF HasMessage(error)
       THEN IF /\ includes(errorMessage, "email")
               /\ \/ includes(errorMessage, "already exists")
                  \/ includes(errorMessage, "duplicate")
                  \/ (includes(errorMessage, "key") /\ includes(errorMessage, "exists"))
            THEN EmailRegistered
            ELSE IF \/ includes(errorMessage, "validation")
                    \/ includes(errorMessage, "invalid")
            THEN IF includes(errorMessage, "email")
                 THEN "Please enter a valid email address."
                 ELSE IF includes(errorMessage, "password")
                 THEN "Password must be at least 6 characters long."
                 ELSE IF \/ includes(errorMessage, "fullname")
                         \/ includes(errorMessage, "name")
                 THEN "Please enter your full name."
                 ELSE OrElse(cleanedMessage, CheckAllFields)
            ELSE OrElse(cleanedMessage, "Please verify your information and try again.")
       ELSE IF \/ includes(error.detail, "duplicate")
               \/ includes(error.detail, "already exists")
               \/ includes(error.detail, "E11000")
       THEN EmailRegistered
       ELSE "Please check that all required fields are filled correctly."

\* handleRegisterError: the message of the {success: false, message} it
\* returns when it returns one (see registerErrorSignal).
registerErrorMessage(error) ==
    cleanErrorMessage(
        IF error.status = 400 THEN registerMessage400(error)
        ELSE IF error.status = 409 THEN EmailRegistered
        ELSE IF error.status = 422
        THEN "Some information appears to be invalid. Please review your details and try again."
        ELSE IF error.status >= 500 THEN TechnicalDifficulties
        ELSE IF error.status = 0 THEN UnableToConnect
        ELSE "We couldn't create your account. Please try again.")

-----------------------------------------------------------------------------
(* The login page and the register page. One of them is mounted at a time;   *)
(* page holds its signals: hasError, errorMessage, errorType, isPosting.     *)

NoPage == [route |-> "none", hasError |-> FALSE, errorMessage |-> "",
           errorType |-> "general", isPosting |-> FALSE]
LoginPageComponent == [NoPage EXCEPT !.route = "login"]
RegisterPageComponent == [NoPage EXCEPT !.route = "register"]

TroubleConnecting ==
    "We're having trouble connecting to our servers. Please check your internet connection and try again."

\* LoginPageComponent.showError: the type it sets when it is given none.
loginErrorType(message) ==
    LET lower == toLowerCase(message) IN
    IF includes(lower, "not found") \/ includes(lower, "no account")
    THEN "not-found"
    ELSE IF /\ includes(lower, "invalid")
            /\ \/ includes(lower, "password")
               \/ includes(lower, "credentials")
               \/ includes(lower, "incorrect")
    THEN "credentials"
    ELSE IF \/ includes(lower, "validation")
            \/ includes(lower, "check")
            \/ includes(lower, "review")
            \/ includes(lower, "required")
    THEN "validation"
    ELSE "general"

\* Faulty variant: only a message about an existing email is recognised.
registerErrorType_ExistsOnly(message) ==
    LET lower == toLowerCase(message) IN
    IF includes(lower, "email") /\ includes(lower, "exists")
    THEN "email-exists"
    ELSE IF \/ includes(lower, "validation")
            \/ includes(lower, "check")
            \/ includes(lower, "filled")
            \/ includes(lower, "review")
            \/ includes(lower, "invalid")
    THEN "validation"
    ELSE "general"

\* RegisterPageComponent.showError: the type it sets when it is given none.
registerErrorType(message) ==
    LET lower == toLowerCase(message) IN
    IF /\ includes(lower, "email")
       /\ \/ includes(lower, "already")
          \/ includes(lower, "registered")
          \/ includes(lower, "exists")
    THEN "email-exists"
    ELSE IF \/ includes(lower, "validation")
            \/ includes(lower, "check")
            \/ includes(lower, "filled")
            \/ includes(lower, "review")
            \/ includes(lower, "invalid")
    THEN "validation"
    ELSE "general"

\* showError(message, type) of the mounted page; type "" when omitted.
showError(p, message, type) ==
    [p EXCEPT !.errorMessage = message,
              !.errorType = IF type # "" THEN type
                            ELSE IF p.route = "login" THEN loginErrorType(message)
                            ELSE registerErrorType(message),
              !.hasError = TRUE]

\* The subscriber of login() / register() in onSubmit: next with a failure
\* result, and error.
nextFailure(p, message) == showError([p EXCEPT !.isPosting = FALSE], message, "")
onError(p) == showError([p EXCEPT !.isPosting = FALSE], TroubleConnecting, "general")

-----------------------------------------------------------------------------
(* ProductsService (src/app/products/services/products.service.ts): its two  *)
(* caches and its image uploads. A product is [id, slug, gender, price]; the *)
(* other fields of a Product play no part in the service. The methods are    *)
(* functions of the service state  s = [productsCache, productCache].        *)

\* An optional value: an omitted one is {}, a given one v is {v}.
Undefined == {}
Given(v) == {v}
OrDefault(option, default) ==
    IF option = Undefined THEN default ELSE CHOOSE v \in option : TRUE

emptyProduct == [id |-> "new", slug |-> "", gender |-> "men", price |-> 0]

\* The products the backend starts with.
Shelf ==
    ("p1" :> [id |-> "p1", slug |-> "shirt", gender |-> "men", price |-> 10])
    @@ ("p2" :> [id |-> "p2", slug |-> "cap", gender |-> "women", price |-> 10])

ALLOWED_IMAGE_FORMATS ==
    { "image/jpeg", "image/jpg", "image/png", "image/gif", "image/avif",
      "image/webp", "image/bmp", "image/svg+xml" }

FORMATS_NEEDING_CONVERSION ==
    { "image/webp", "image/avif", "image/bmp", "image/svg+xml" }

MAX_FILE_SIZE == 5 * 1024 * 1024

\* Map: new Map(), has, get, set, delete
NoEntries == << >>
has(map, key) == key \in DOMAIN map
get(map, key) == map[key]
set(map, key, value) == (key :> value) @@ map
delete(map, key) ==
    IF DOMAIN map \ {key} = {} THEN NoEntries
    ELSE [k \in DOMAIN map \ {key} |-> map[k]]

Shop == [productsCache |-> productsCache, productCache |-> productCache]

Stock(s) ==
    /\ productsCache' = s.productsCache
    /\ productCache' = s.productCache

\* An HTTP request of the service: the method that sent it, the cache key its
\* response is stored under, the gender it asks for (GET /products) and the
\* price it sends (PATCH, POST).
Request(op, arg, gender, price) ==
    [op |-> op, arg |-> arg, gender |-> gender, price |-> price]

\* What a method returns at once: the service state, the request it sends
\* ({} if none) and the value its Observable emits without waiting ({} if it
\* waits for the response).
Returned(s, request, value) == [s |-> s, request |-> request, value |-> value]

\* `${limit}-${offset}-${gender}` with the defaults of the destructuring
ListKey(options) ==
    ToString(OrDefault(options.limit, 9)) \o "-"
        \o ToString(OrDefault(options.offset, 0)) \o "-"
        \o OrDefault(options.gender, "")

\* Faulty variant: an omitted option is not replaced by its default.
getProducts_NoDefaults(s, options) ==
    LET Shown(option) == IF option = Undefined THEN "undefined"
                         ELSE ToString(CHOOSE v \in option : TRUE)
        key == Shown(options.limit) \o "-" \o Shown(options.offset) \o "-"
                   \o OrDefault(options.gender, "undefined")
    IN IF has(s.productsCache, key)
       THEN Returned(s, {}, {get(s.productsCache, key)})
       ELSE Returned(s, {Request("getProducts", key,
                                 OrDefault(options.gender, ""), 0)}, {})

getProducts(s, options) ==
    LET key == ListKey(options) IN
    IF has(s.productsCache, key)
    THEN Returned(s, {}, {get(s.productsCache, key)})
    ELSE Returned(s, {Request("getProducts", key,
                              OrDefault(options.gender, ""), 0)}, {})

\* tap((resp) => this.productsCache.set(key, resp))
getProductsResponse(s, key, resp) ==
    [s EXCEPT !.productsCache = set(@, key, resp)]

getProductByIdSlug(s, idSlug) ==
    IF has(s.productCache, idSlug)
    THEN Returned(s, {}, {get(s.productCache, idSlug)})
    ELSE Returned(s, {Request("getProductByIdSlug", idSlug, "", 0)}, {})

getProductById(s, id) ==
    IF id = "new"
    THEN Returned(s, {}, {emptyProduct})
    ELSE IF has(s.productCache, id)
    THEN Returned(s, {}, {get(s.productCache, id)})
    ELSE Returned(s, {Request("getProductById", id, "", 0)}, {})

\* tap((product) => this.productCache.set(idSlug, product))
getProductResponse(s, idSlug, product) ==
    [s EXCEPT !.productCache = set(@, idSlug, product)]

\* Faulty variant: the lists that hold the product are dropped.
updateProductCache_DropsLists(s, product) ==
    [s EXCEPT !.productCache = set(@, product.id, product),
              !.productsCache =
                  LET kept == {k \in DOMAIN @ :
                                 \A i \in DOMAIN @[k].products :
                                     @[k].products[i].id # product.id}
                  IN IF kept = {} THEN NoEntries ELSE [k \in kept |-> @[k]]]

updateProductCache(s, product) ==
    [s EXCEPT !.productCache = set(@, product.id, product),
              !.productsCache =
                  IF DOMAIN @ = {} THEN NoEntries
                  ELSE [k \in DOMAIN @ |->
                          [@[k] EXCEPT !.products =
                              IF Len(@) = 0 THEN << >>
                              ELSE [i \in DOMAIN @ |->
                                      IF @[i].id = product.id
                                      THEN product ELSE @[i]]]]]

clearProductsCache(s) ==
    [s EXCEPT !.productsCache = NoEntries, !.productCache = NoEntries]

\* options is {} when the argument is omitted.
invalidateProductsListCache(s, options) ==
    IF options # Undefined
    THEN [s EXCEPT !.productsCache =
                       delete(@, ListKey(CHOOSE o \in options : TRUE))]
    ELSE [s EXCEPT !.productsCache = NoEntries]

invalidateProductCache(s, idOrSlug) ==
    [s EXCEPT !.productCache = delete(@, idOrSlug)]

\* A File is [type, size]. validateAndUploadImages, the validation: the
\* positions of the files that are refused.
Refused(file) ==
    \/ file.type \notin ALLOWED_IMAGE_FORMATS
    \/ file.size > MAX_FILE_SIZE

\* Faulty variant: only the first file is looked at.
errors_FirstFileOnly(files) == {i \in 1..Len(files) : i = 1 /\ Refused(files[i])}

errors(files) == {i \in 1..Len(files) : Refused(files[i])}

\* validateAndUploadImages(images): "nothing" for of([]), "error" for the
\* validation error, "upload" when uploadValidatedImages is entered. images
\* is {} when the argument is omitted.
validateAndUploadImages(images) ==
    IF images = Undefined THEN "nothing"
    ELSE LET files == CHOOSE f \in images : TRUE IN
         IF Len(files) = 0 THEN "nothing"
         ELSE IF errors(files) # {} THEN "error"
         ELSE "upload"

\* uploadImage(imageFile): the file is posted. sent is the type of the file
\* that uploadImage is given; posts counts the POSTs made for the file and
\* error keeps the failure of the first one (history).
uploadImage(imageFile) ==
    [original |-> imageFile.type, sent |-> imageFile.type,
     stage |-> "post", posts |-> 1, error |-> {}]

\* processAndUploadImage(imageFile): the stage the upload of the file starts
\* in. The file goes through convertToJpeg first, or is posted as it is.
processAndUploadImage(imageFile) ==
    IF imageFile.type \in FORMATS_NEEDING_CONVERSION
    THEN [original |-> imageFile.type, sent |-> imageFile.type,
          stage |-> "convert", posts |-> 0, error |-> {}]
    ELSE uploadImage(imageFile)

\* convertToJpeg succeeded inside processAndUploadImage: uploadImage is
\* called with the converted file.
converted(upload) ==
    [upload EXCEPT !.sent = "image/jpeg", !.stage = "post", !.posts = @ + 1]

NotAnImage == "Make sure that the file is an image"

\* Faulty variant: every failed upload is retried after a conversion.
retries_Always(upload, error) == TRUE

\* uploadImage, catchError: the condition of the fallback.
retries(upload, error) ==
    /\ error.status = 400
    /\ error.message # Undefined
    /\ includes(CHOOSE m \in error.message : TRUE, NotAnImage)
    /\ upload.sent \notin FORMATS_NEEDING_CONVERSION

\* uploadImage, catchError: the first POST failed.
uploadFailed(upload, error) ==
    IF retries(upload, error)
    THEN [upload EXCEPT !.stage = "reconvert", !.error = {error}]
    ELSE [upload EXCEPT !.stage = "failed", !.error = {error}]

\* The fallback conversion succeeded: the second POST is sent.
reconverted(upload) ==
    [upload EXCEPT !.stage = "repost", !.posts = @ + 1]

NoJob == [kind |-> "none", id |-> "", price |-> 0, uploads |-> << >>]

\* convertToJpeg failed (img.onerror, or toBlob without a blob), or the second
\* POST failed: the error is passed on.
gaveUp(upload) == [upload EXCEPT !.stage = "failed"]

\* The POST succeeded: the file name is emitted.
uploaded(upload) == [upload EXCEPT !.stage = "done"]

NoOptions == [limit |-> Undefined, offset |-> Undefined, gender |-> Undefined]

\* History: a step of the products service. net counts the requests it sent,
\* posts the uploads (POST /files/product) among them; outcome is what the
\* Observable concerned did in this step ("value", "pending", "error"), value
\* what it emitted, images the imageFileList a save was called with.
NoMove == [op |-> "init", arg |-> "", options |-> NoOptions, net |-> 0,
           posts |-> 0, outcome |-> "none", value |-> {}, ok |-> FALSE,
           file |-> 0, images |-> Undefined]

\* The products service as constructed.
ShopInit ==
    /\ productsCache = NoEntries
    /\ productCache = NoEntries
    /\ catalogue = Shelf
    /\ requests = EmptyBag
    /\ job = NoJob
    /\ move = NoMove

-----------------------------------------------------------------------------
(* History bookkeeping *)

NoInfo == [isValid |-> FALSE, lastChecked |-> 0, tokenExpiration |-> NoExp,
           timeSinceLastCheck |-> 0]

NoStep == [op |-> "init", path |-> "none", net |-> 0, ret |-> "none",
           hadToken |-> FALSE, expired |-> FALSE, near |-> FALSE,
           hit |-> FALSE, age |-> "none", ok |-> FALSE, resp |-> HttpError,
           from |-> "-", signal |-> "none", info |-> NoInfo, message |-> ""]

\* The persisted token's decoded expiration lies in the past.
StoredExpired ==
    /\ storage # Null
    /\ \E e \in extractTokenExpiration(storage) : e < now

\* The persisted token's decoded expiration is at most the refresh threshold away.
StoredNear ==
    /\ storage # Null
    /\ \E e \in extractTokenExpiration(storage) : e - now <= TOKEN_REFRESH_THRESHOLD

\* The cache-hit condition of the data model, on the cache as it stands.
CacheUsable ==
    /\ authCache.isValid = TRUE
    /\ now - authCache.lastChecked < CACHE_DURATION
    /\ ~(\E e \in authCache.tokenExpiration : e - now <= TOKEN_REFRESH_THRESHOLD)

Age ==
    IF okSince = {} THEN "none"
    ELSE IF \E t \in okSince : now - t < CACHE_DURATION THEN "fresh" ELSE "stale"

CallStep(name, r) ==
    [NoStep EXCEPT !.op = name, !.path = r.path, !.net = r.net, !.ret = r.ret,
                   !.hadToken = (storage # Null), !.expired = StoredExpired,
                   !.near = StoredNear, !.hit = CacheUsable, !.age = Age,
                   !.from = _authStatus]

\* A checkStatus() that ran logout() ends the run of undisturbed success.
OkAfter(r) == IF r.path \in {"cache", "network"} THEN okSince ELSE {}
HitAfter(r) == IF r.path = "cache" THEN TRUE
               ELSE IF r.path = "network" THEN hitSince ELSE FALSE

Pending == pending.login + pending.register + pending.check

\* A call that may send a request: a new set of overlapping requests starts
\* when nothing was in flight.
EarlierAfterCall == IF Pending = 0 THEN NoResponse ELSE earlier

\* A response has been processed: it is an earlier one if a request remains.
EarlierAfterResponse(resp) == IF Pending > 1 THEN resp ELSE earlier

-----------------------------------------------------------------------------
(* Initial state: the service as constructed, before any callback has run *)

ServiceInit ==
    /\ storage \in Tokens \cup {Null}
    /\ _authStatus = "checking"
    /\ _user = Null
    /\ _token = storage
    /\ authCache = InvalidCache
    /\ now = StartTime
    /\ tickDue = TRUE
    /\ pending = [login |-> 0, register |-> 0, check |-> 0]
    /\ last = NoStep
    /\ okSince = {}
    /\ hitSince = FALSE
    /\ sinceLogout = FALSE
    /\ logoutRun = 0
    /\ earlier = NoResponse

\* The service on its own: no page is mounted.
Init ==
    /\ ServiceInit
    /\ ShopInit
    /\ page = NoPage
    /\ failure = NoFailure

-----------------------------------------------------------------------------
(* Actions *)

\* login(email, password): the POST /auth/login is sent.
Login ==
    /\ Pending < MaxPending
    /\ pending' = [pending EXCEPT !.login = @ + 1]
    /\ last' = [NoStep EXCEPT !.op = "login", !.net = 1, !.ret = "pending"]
    /\ sinceLogout' = FALSE
    /\ logoutRun' = 0
    /\ earlier' = EarlierAfterCall
    /\ UNCHANGED <<svc, now, tickDue, okSince, hitSince>>
    /\ UNCHANGED ui
    /\ UNCHANGED shop

\* register(email, password, fullName): the POST /auth/register is sent.
Register ==
    /\ Pending < MaxPending
    /\ pending' = [pending EXCEPT !.register = @ + 1]
    /\ last' = [NoStep EXCEPT !.op = "register", !.net = 1, !.ret = "pending"]
    /\ sinceLogout' = FALSE
    /\ logoutRun' = 0
    /\ earlier' = EarlierAfterCall
    /\ UNCHANGED <<svc, now, tickDue, okSince, hitSince>>
    /\ UNCHANGED ui
    /\ UNCHANGED shop

\* The login response arrives: map() on success, catchError() on failure.
LoginResponse ==
    /\ pending.login > 0
    /\ pending' = [pending EXCEPT !.login = @ - 1]
    /\ \E resp \in AuthResponses \cup {HttpError} :
       \E signal \in (IF resp = HttpError
                      THEN {loginErrorSignal(err) : err \in HttpErrors}
                      ELSE {"success"}) :
         /\ Install(IF resp = HttpError THEN handleLoginError(Cur)
                    ELSE authSucceeded(Cur, resp, now))
         /\ last' = [NoStep EXCEPT !.op = "loginResponse", !.ok = (resp # HttpError),
                                   !.resp = resp, !.from = _authStatus,
                                   !.ret = IF resp = HttpError THEN "false" ELSE "true",
                                   !.signal = signal]
         /\ okSince' = IF resp = HttpError THEN {} ELSE {now}
         /\ earlier' = EarlierAfterResponse(resp)
    /\ hitSince' = FALSE
    /\ logoutRun' = 0
    /\ UNCHANGED <<now, tickDue, sinceLogout>>
    /\ UNCHANGED ui
    /\ UNCHANGED shop

\* The register response arrives.
RegisterResponse ==
    /\ pending.register > 0
    /\ pending' = [pending EXCEPT !.register = @ - 1]
    /\ \E resp \in AuthResponses \cup {HttpError} :
       \E signal \in (IF resp = HttpError
                      THEN {registerErrorSignal(err) : err \in HttpErrors}
                      ELSE {"success"}) :
         /\ Install(IF resp = HttpError THEN handleRegisterError(Cur)
                    ELSE authSucceeded(Cur, resp, now))
         /\ last' = [NoStep EXCEPT !.op = "registerResponse", !.ok = (resp # HttpError),
                                   !.resp = resp, !.from = _authStatus,
                                   !.ret = IF resp = HttpError THEN "false" ELSE "true",
                                   !.signal = signal]
         /\ okSince' = IF resp = HttpError THEN {} ELSE {now}
         /\ earlier' = EarlierAfterResponse(resp)
    /\ hitSince' = FALSE
    /\ logoutRun' = 0
    /\ UNCHANGED <<now, tickDue, sinceLogout>>
    /\ UNCHANGED ui
    /\ UNCHANGED shop

\* checkStatus() is called (by checkStatusResource or by any other caller).
CheckStatus ==
    LET r == checkStatus(Cur, now) IN
    /\ Pending + r.net <= MaxPending
    /\ Install(r.s)
    /\ pending' = [pending EXCEPT !.check = @ + r.net]
    /\ last' = CallStep("checkStatus", r)
    /\ okSince' = OkAfter(r)
    /\ hitSince' = HitAfter(r)
    /\ earlier' = EarlierAfterCall
    /\ sinceLogout' = FALSE
    /\ logoutRun' = 0
    /\ UNCHANGED <<now, tickDue>>
    /\ UNCHANGED ui
    /\ UNCHANGED shop

\* The check-status response arrives.
CheckResponse ==
    /\ pending.check > 0
    /\ pending' = [pending EXCEPT !.check = @ - 1]
    /\ \E resp \in AuthResponses \cup {HttpError} :
         /\ Install(IF resp = HttpError THEN checkFailed(Cur, now)
                    ELSE checkSucceeded(Cur, resp, now))
         /\ last' = [NoStep EXCEPT !.op = "checkResponse", !.ok = (resp # HttpError),
                                   !.resp = resp, !.from = _authStatus,
                                   !.ret = IF resp = HttpError THEN "false" ELSE "true"]
         /\ okSince' = IF resp = HttpError THEN {} ELSE {now}
         /\ earlier' = EarlierAfterResponse(resp)
    /\ hitSince' = FALSE
    /\ logoutRun' = 0
    /\ UNCHANGED <<now, tickDue, sinceLogout>>
    /\ UNCHANGED ui
    /\ UNCHANGED shop

\* logout()
Logout ==
    /\ Install(logout(Cur))
    /\ last' = [NoStep EXCEPT !.op = "logout"]
    /\ okSince' = {}
    /\ hitSince' = FALSE
    /\ sinceLogout' = TRUE
    /\ logoutRun' = IF logoutRun < 2 THEN logoutRun + 1 ELSE logoutRun
    /\ UNCHANGED <<now, tickDue, pending, earlier>>
    /\ UNCHANGED ui
    /\ UNCHANGED shop

\* forceAuthCheck()
ForceAuthCheck ==
    LET r == forceAuthCheck(Cur, now) IN
    /\ Pending + r.net <= MaxPending
    /\ Install(r.s)
    /\ pending' = [pending EXCEPT !.check = @ + r.net]
    /\ last' = CallStep("forceAuthCheck", r)
    /\ okSince' = {}
    /\ hitSince' = FALSE
    /\ earlier' = EarlierAfterCall
    /\ sinceLogout' = FALSE
    /\ logoutRun' = 0
    /\ UNCHANGED <<now, tickDue>>
    /\ UNCHANGED ui
    /\ UNCHANGED shop

\* getCacheInfo()
GetCacheInfo ==
    LET r == getCacheInfo(Cur, now) IN
    /\ Install(r.s)
    /\ last' = [NoStep EXCEPT !.op = "getCacheInfo", !.info = r.info,
                              !.from = _authStatus]
    /\ logoutRun' = 0
    /\ UNCHANGED <<now, tickDue, pending, okSince, hitSince, sinceLogout, earlier>>
    /\ UNCHANGED ui
    /\ UNCHANGED shop

\* The timer emits and the subscriber of setupTokenAutoRefresh runs. The
\* timer is never held back by the requests in flight: a refresh needs a
\* successful response since the previous one, so it adds at most one request
\* to those the callers have in flight.
Tick ==
    LET r == autoRefresh(Cur, now) IN
    /\ tickDue
    /\ tickDue' = FALSE
    /\ Install(r.s)
    /\ pending' = [pending EXCEPT !.check = @ + r.net]
    /\ last' = CallStep("tick", r)
    /\ okSince' = IF r.path = "none" THEN okSince ELSE {}
    /\ hitSince' = IF r.path = "none" THEN hitSince ELSE FALSE
    /\ earlier' = IF r.path = "none" THEN earlier ELSE EarlierAfterCall
    /\ sinceLogout' = IF r.path = "none" THEN sinceLogout ELSE FALSE
    /\ logoutRun' = 0
    /\ UNCHANGED now
    /\ UNCHANGED ui
    /\ UNCHANGED shop

\* One timer period passes; the next emission is queued.
AdvanceTime ==
    /\ ~tickDue
    /\ now < EndTime
    /\ now' = now + TimerPeriod
    /\ tickDue' = TRUE
    /\ last' = [NoStep EXCEPT !.op = "time"]
    /\ logoutRun' = 0
    /\ UNCHANGED <<svc, pending, okSince, hitSince, sinceLogout, earlier>>
    /\ UNCHANGED ui
    /\ UNCHANGED shop

Next ==
    \/ Login
    \/ Register
    \/ LoginResponse
    \/ RegisterResponse
    \/ CheckStatus
    \/ CheckResponse
    \/ Logout
    \/ ForceAuthCheck
    \/ GetCacheInfo
    \/ Tick
    \/ AdvanceTime

Spec == Init /\ [][Next]_vars

\* The timer keeps emitting and the clock keeps running (up to the horizon of
\* the model); nothing is assumed about callers or about the backend.
FairSpec == Spec /\ WF_vars(Tick) /\ WF_vars(AdvanceTime)

-----------------------------------------------------------------------------
(* The pages in front of the service: a login or register page is mounted,  *)
(* its form, filled in validly, is submitted and the backend answers every  *)
(* request with the same failure.                                           *)

\* Strings a backend sends as error.error.message.
BackendTexts ==
    { "", "Incorrect password", "User not found", "Invalid credentials",
      "Unauthorized", "Account is locked", "Invalid email",
      "password is required", "email is required", "email must be an email",
      "Key (email)=(a@b.com) already exists.", "duplicate key error",
      "Validation failed", "ValidationError:", "password too short",
      "Something went wrong!" }

BackendErrors ==
    [ status  : {0, 400, 401, 404, 409, 422, 429, 500},
      message : {"absent"}, text : {""},
      detail  : {"", "Bad Request", "E11000 duplicate key error"} ]
    \cup
    [ status  : {0, 400, 401, 404, 409, 422, 429, 500},
      message : {"array"}, text : {""}, detail : {"Bad Request"} ]
    \cup
    [ status  : {0, 400, 401, 404, 409, 422, 429, 500},
      message : {"string"}, text : BackendTexts, detail : {"Bad Request"} ]

\* What login() and register() deliver for each of these failures: the signal
\* and, for a failure result, its message (tabulated once).
LoginResults ==
    { [error |-> e, signal |-> loginErrorSignal(e),
       message |-> IF loginErrorSignal(e) = "error" THEN "" ELSE loginErrorMessage(e)] :
      e \in BackendErrors }

RegisterResults ==
    { [error |-> e, signal |-> registerErrorSignal(e),
       message |-> IF registerErrorSignal(e) = "error" THEN ""
                   ELSE registerErrorMessage(e)] :
      e \in BackendErrors }

loginResult(error) == CHOOSE r \in LoginResults : r.error = error
registerResult(error) == CHOOSE r \in RegisterResults : r.error = error

\* The visitor has no remembered session.
PageInit ==
    /\ ServiceInit
    /\ ShopInit
    /\ storage = Null
    /\ page \in {LoginPageComponent, RegisterPageComponent}
    /\ failure \in BackendErrors

\* LoginPageComponent.onSubmit with a valid form: login() is called.
SubmitLogin ==
    /\ page.route = "login"
    /\ Pending < MaxPending
    /\ page' = [page EXCEPT !.isPosting = TRUE, !.hasError = FALSE]
    /\ pending' = [pending EXCEPT !.login = @ + 1]
    /\ last' = [NoStep EXCEPT !.op = "login", !.net = 1, !.ret = "pending"]
    /\ sinceLogout' = FALSE
    /\ logoutRun' = 0
    /\ earlier' = EarlierAfterCall
    /\ UNCHANGED <<svc, now, tickDue, okSince, hitSince, failure>>
    /\ UNCHANGED shop

\* RegisterPageComponent.onSubmit with a valid form: register() is called.
SubmitRegister ==
    /\ page.route = "register"
    /\ Pending < MaxPending
    /\ page' = [page EXCEPT !.isPosting = TRUE, !.hasError = FALSE]
    /\ pending' = [pending EXCEPT !.register = @ + 1]
    /\ last' = [NoStep EXCEPT !.op = "register", !.net = 1, !.ret = "pending"]
    /\ sinceLogout' = FALSE
    /\ logoutRun' = 0
    /\ earlier' = EarlierAfterCall
    /\ UNCHANGED <<svc, now, tickDue, okSince, hitSince, failure>>
    /\ UNCHANGED shop

\* The login request fails: catchError runs handleLoginError and the page's
\* subscriber gets the failure result, or the error if the handler throws.
LoginFailed ==
    /\ page.route = "login"
    /\ pending.login > 0
    /\ pending' = [pending EXCEPT !.login = @ - 1]
    /\ Install(handleLoginError(Cur))
    /\ page' = IF loginResult(failure).signal = "error"
               THEN onError(page)
               ELSE nextFailure(page, loginResult(failure).message)
    /\ last' = [NoStep EXCEPT !.op = "loginResponse", !.from = _authStatus,
                              !.ret = "false",
                              !.signal = loginResult(failure).signal,
                              !.message = loginResult(failure).message]
    /\ okSince' = {}
    /\ hitSince' = FALSE
    /\ logoutRun' = 0
    /\ earlier' = EarlierAfterResponse(HttpError)
    /\ UNCHANGED <<now, tickDue, sinceLogout, failure>>
    /\ UNCHANGED shop

\* The register request fails.
RegisterFailed ==
    /\ page.route = "register"
    /\ pending.register > 0
    /\ pending' = [pending EXCEPT !.register = @ - 1]
    /\ Install(handleRegisterError(Cur))
    /\ page' = IF registerResult(failure).signal = "error"
               THEN onError(page)
               ELSE nextFailure(page, registerResult(failure).message)
    /\ last' = [NoStep EXCEPT !.op = "registerResponse", !.from = _authStatus,
                              !.ret = "false",
                              !.signal = registerResult(failure).signal,
                              !.message = registerResult(failure).message]
    /\ okSince' = {}
    /\ hitSince' = FALSE
    /\ logoutRun' = 0
    /\ earlier' = EarlierAfterResponse(HttpError)
    /\ UNCHANGED <<now, tickDue, sinceLogout, failure>>
    /\ UNCHANGED shop

\* The setTimeout callback of showError runs (it has an effect as long as the
\* error it was set for, or a later one, is still on the page).
ErrorTimeout ==
    /\ page.hasError \/ page.errorMessage # "" \/ page.errorType # "general"
    /\ page' = [page EXCEPT !.hasError = FALSE, !.errorMessage = "",
                            !.errorType = "general"]
    /\ last' = [NoStep EXCEPT !.op = "timeout"]
    /\ logoutRun' = 0
    /\ UNCHANGED <<svc, now, tickDue, pending, okSince, hitSince, sinceLogout,
                   earlier, failure>>
    /\ UNCHANGED shop

PageNext ==
    \/ SubmitLogin
    \/ SubmitRegister
    \/ LoginFailed
    \/ RegisterFailed
    \/ ErrorTimeout

PageSpec == PageInit /\ [][PageNext]_vars

-----------------------------------------------------------------------------
(* cleanErrorMessage on its own: it is applied to one message.              *)

MaxParts == 2            \* pieces a message is put together from

\* Pieces of messages: letters in both cases, a digit, a blank, punctuation,
\* and texts that the substitutions look for.
Pieces ==
    { "a", "B", "1", " ", ".", "!", "?",
      "Key (email)=(a@b.com)", "already exists", "E11000 dup key",
      "Duplicate Key Error", "ValidationError:",
      "Path " \o Backtick \o "email" \o Backtick \o " is required",
      "user not found" }

RECURSIVE Messages(_)
Messages(n) ==
    IF n = 0 THEN {""}
    ELSE {m \o piece : m \in Messages(n - 1), piece \in Pieces \cup {""}}

CleanInit ==
    /\ ServiceInit
    /\ ShopInit
    /\ storage = Null
    /\ page = NoPage
    /\ failure \in [status : {400}, message : {"string"},
                    text : Messages(MaxParts), detail : {""}]

\* cleanErrorMessage(failure.text)
CleanErrorMessage ==
    /\ last.op = "init"
    /\ last' = [NoStep EXCEPT !.op = "cleanErrorMessage",
                              !.message = cleanErrorMessage(failure.text)]
    /\ UNCHANGED <<svc, now, tickDue, pending, okSince, hitSince, sinceLogout,
                   logoutRun, earlier, page, failure>>
    /\ UNCHANGED shop

CleanNext == CleanErrorMessage

CleanSpec == CleanInit /\ [][CleanNext]_vars

-----------------------------------------------------------------------------
(* The products service: its callers and the backend in front of it.        *)

MaxRequests == 2         \* product requests in flight at once
MaxFiles == 2            \* files in a FileList

Prices == {10, 20}

\* The options getProducts and invalidateProductsListCache are called with.
ListOptions ==
    { NoOptions,
      [limit |-> Given(9), offset |-> Given(0), gender |-> Given("")],
      [limit |-> Undefined, offset |-> Given(0), gender |-> Undefined],
      [limit |-> Undefined, offset |-> Undefined, gender |-> Given("men")],
      [limit |-> Given(9), offset |-> Given(0), gender |-> Given("men")] }

\* GET /products?gender=: the ProductsResponse of the backend.
Listing(gender) ==
    LET ids == {id \in DOMAIN catalogue :
                   gender = "" \/ catalogue[id].gender = gender}
        Put(id) == IF id \in ids THEN << catalogue[id] >> ELSE << >>
    IN [count |-> Cardinality(ids), products |-> Put("p1") \o Put("p2") \o Put("p3")]

\* GET /products/:idSlug
Found(idSlug) ==
    {catalogue[id] : id \in {i \in DOMAIN catalogue :
                                 i = idSlug \/ catalogue[i].slug = idSlug}}

InFlight == BagCardinality(requests)

\* The auth service and the pages are left alone.
AuthIdle ==
    UNCHANGED <<_authStatus, _user, _token, storage, authCache, now, tickDue,
                pending, last, okSince, hitSince, sinceLogout, logoutRun,
                earlier, page, failure>>

Send(request) == requests' = requests (+) SetToBag(request)
Answer(request) == requests' = requests (-) SetToBag({request})

\* What the caller of a method sees at once.
CallMove(name, arg, r) ==
    [NoMove EXCEPT !.op = name, !.arg = arg, !.net = Cardinality(r.request),
                   !.outcome = IF r.value # {} THEN "value" ELSE "pending",
                   !.value = r.value]

\* getProducts(options)
GetProducts ==
    \E options \in ListOptions :
        LET r == getProducts(Shop, options) IN
        /\ InFlight + Cardinality(r.request) <= MaxRequests
        /\ Stock(r.s)
        /\ Send(r.request)
        /\ move' = [CallMove("getProducts", ListKey(options), r)
                        EXCEPT !.options = options]
        /\ UNCHANGED <<catalogue, job>>
        /\ AuthIdle

\* The answer to GET /products arrives.
GetProductsResponse ==
    \E request \in BagToSet(requests) : \E ok \in BOOLEAN :
        /\ request.op = "getProducts"
        /\ Answer(request)
        /\ Stock(IF ok THEN getProductsResponse(Shop, request.arg,
                                                Listing(request.gender))
                 ELSE Shop)
        /\ move' = [NoMove EXCEPT !.op = "getProductsResponse",
                                  !.arg = request.arg, !.ok = ok,
                                  !.outcome = IF ok THEN "value" ELSE "error",
                                  !.value = IF ok THEN {Listing(request.gender)}
                                            ELSE {}]
        /\ UNCHANGED <<catalogue, job>>
        /\ AuthIdle

\* getProductByIdSlug(idSlug)
GetProductByIdSlug ==
    \E idSlug \in {"p1", "shirt"} :
        LET r == getProductByIdSlug(Shop, idSlug) IN
        /\ InFlight + Cardinality(r.request) <= MaxRequests
        /\ Stock(r.s)
        /\ Send(r.request)
        /\ move' = CallMove("getProductByIdSlug", idSlug, r)
        /\ UNCHANGED <<catalogue, job>>
        /\ AuthIdle

\* getProductById(id)
GetProductById ==
    \E id \in {"p1", "new"} :
        LET r == getProductById(Shop, id) IN
        /\ InFlight + Cardinality(r.request) <= MaxRequests
        /\ Stock(r.s)
        /\ Send(r.request)
        /\ move' = CallMove("getProductById", id, r)
        /\ UNCHANGED <<catalogue, job>>
        /\ AuthIdle

\* The answer to GET /products/:idSlug arrives.
GetProductResponse ==
    \E request \in BagToSet(requests) : \E ok \in BOOLEAN :
        /\ request.op \in {"getProductByIdSlug", "getProductById"}
        /\ ok => Found(request.arg) # {}
        /\ Answer(request)
        /\ Stock(IF ok THEN getProductResponse(Shop, request.arg,
                                               CHOOSE p \in Found(request.arg) : TRUE)
                 ELSE Shop)
        /\ move' = [NoMove EXCEPT !.op = "getProductResponse",
                                  !.arg = request.arg, !.ok = ok,
                                  !.outcome = IF ok THEN "value" ELSE "error",
                                  !.value = IF ok THEN Found(request.arg) ELSE {}]
        /\ UNCHANGED <<catalogue, job>>
        /\ AuthIdle

\* The request that createProduct and updateProduct send once the images are
\* there (switchMap).
Save(kind, id, price) == Request(kind, id, "", price)

\* updateProduct(id, productLike, imageFileList) and createProduct(productLike,
\* imageFileList) up to their first wait: validateAndUploadImages, then the
\* uploads or, with no image, the PATCH / POST at once. The result names the
\* request sent, the uploads started and the number of upload POSTs made.
start(kind, id, price, images) ==
    LET validated == validateAndUploadImages(images)
        files == CHOOSE f \in images : TRUE
        uploads == [i \in 1..Len(files) |-> processAndUploadImage(files[i])]
    IN CASE validated = "error" ->
              [outcome |-> "error", request |-> {}, job |-> NoJob, posts |-> 0]
         [] validated = "nothing" ->
              [outcome |-> "pending", request |-> {Save(kind, id, price)},
               job |-> NoJob, posts |-> 0]
         [] validated = "upload" ->
              [outcome |-> "pending", request |-> {},
               job |-> [kind |-> kind, id |-> id, price |-> price,
                        uploads |-> uploads],
               posts |-> Cardinality({i \in 1..Len(files) :
                                         uploads[i].stage = "post"})]

\* updateProduct without new images
UpdateProduct ==
    \E price \in Prices : \E images \in {Undefined, Given(<< >>)} :
        LET r == start("updateProduct", "p1", price, images) IN
        /\ InFlight + Cardinality(r.request) <= MaxRequests
        /\ Send(r.request)
        /\ move' = [NoMove EXCEPT !.op = "updateProduct", !.arg = "p1",
                                  !.net = Cardinality(r.request) + r.posts,
                                  !.posts = r.posts,
                                  !.outcome = r.outcome,
                                  !.images = images]
        /\ UNCHANGED <<productsCache, productCache, catalogue, job>>
        /\ AuthIdle

\* The answer to PATCH /products/:id or POST /products arrives: the backend
\* has saved the product, tap() runs updateProductCache.
SaveResponse ==
    \E request \in BagToSet(requests) : \E ok \in BOOLEAN :
        LET saved ==
                IF request.op = "updateProduct"
                THEN [catalogue[request.arg] EXCEPT !.price = request.price]
                ELSE [id |-> "p3", slug |-> "scarf", gender |-> "women",
                      price |-> request.price]
        IN
        /\ request.op \in {"updateProduct", "createProduct"}
        /\ ok => IF request.op = "createProduct"
                 THEN "p3" \notin DOMAIN catalogue
                 ELSE request.arg \in DOMAIN catalogue
        /\ Answer(request)
        /\ catalogue' = IF ok THEN (saved.id :> saved) @@ catalogue ELSE catalogue
        /\ Stock(IF ok THEN updateProductCache(Shop, saved) ELSE Shop)
        /\ move' = [NoMove EXCEPT !.op = request.op \o "Response",
                                  !.arg = saved.id, !.ok = ok,
                                  !.outcome = IF ok THEN "value" ELSE "error",
                                  !.value = IF ok THEN {saved} ELSE {}]
        /\ UNCHANGED job
        /\ AuthIdle

\* invalidateProductsListCache(options?)
InvalidateProductsListCache ==
    \E options \in {Undefined} \cup {Given(o) : o \in ListOptions} :
        /\ Stock(invalidateProductsListCache(Shop, options))
        /\ move' = [NoMove EXCEPT !.op = "invalidateProductsListCache",
                        !.arg = IF options = Undefined THEN ""
                                ELSE ListKey(CHOOSE o \in options : TRUE),
                        !.options = IF options = Undefined THEN NoOptions
                                    ELSE CHOOSE o \in options : TRUE,
                        !.ok = (options # Undefined)]
        /\ UNCHANGED <<catalogue, requests, job>>
        /\ AuthIdle

\* invalidateProductCache(idOrSlug)
InvalidateProductCache ==
    \E idOrSlug \in {"p1", "shirt"} :
        /\ Stock(invalidateProductCache(Shop, idOrSlug))
        /\ move' = [NoMove EXCEPT !.op = "invalidateProductCache", !.arg = idOrSlug]
        /\ UNCHANGED <<catalogue, requests, job>>
        /\ AuthIdle

\* clearProductsCache()
ClearProductsCache ==
    /\ Stock(clearProductsCache(Shop))
    /\ move' = [NoMove EXCEPT !.op = "clearProductsCache"]
    /\ UNCHANGED <<catalogue, requests, job>>
    /\ AuthIdle

ProductsInit ==
    /\ ServiceInit
    /\ storage = Null
    /\ page = NoPage
    /\ failure = NoFailure
    /\ ShopInit

ProductsNext ==
    \/ GetProducts
    \/ GetProductsResponse
    \/ GetProductByIdSlug
    \/ GetProductById
    \/ GetProductResponse
    \/ UpdateProduct
    \/ SaveResponse
    \/ InvalidateProductsListCache
    \/ InvalidateProductCache
    \/ ClearProductsCache

ProductsSpec == ProductsInit /\ [][ProductsNext]_vars

-----------------------------------------------------------------------------
(* Saving a product with images, and uploadImage on its own. The caller     *)
(* modelled here saves one product at a time: it calls the service when no  *)
(* upload and no request of an earlier call is outstanding. Overlapping     *)
(* requests are the subject of ProductsSpec.                                *)

\* Files: an image posted as it is, at the size limit and one byte above
\* it; an image converted first; a file that is no image.
Files ==
    { [type |-> "image/png", size |-> MAX_FILE_SIZE],
      [type |-> "image/png", size |-> MAX_FILE_SIZE + 1],
      [type |-> "image/webp", size |-> MAX_FILE_SIZE],
      [type |-> "application/pdf", size |-> MAX_FILE_SIZE] }

RECURSIVE FileSeqs(_)
FileSeqs(n) ==
    IF n = 0 THEN {<< >>}
    ELSE FileSeqs(n - 1) \cup
         {Append(files, file) : files \in FileSeqs(n - 1), file \in Files}

\* imageFileList: omitted, or a FileList of up to MaxFiles files
FileLists == {Undefined} \cup {Given(files) : files \in FileSeqs(MaxFiles)}

\* The failures of POST /files/product.
UploadErrors ==
    [ status  : {400, 500},
      message : {Undefined, Given(NotAnImage), Given("File too large")} ]

\* forkJoin over the uploads, and what follows it: as soon as one upload has
\* failed the whole fails and the others are unsubscribed; when all have
\* emitted createProduct / updateProduct send their request, and uploadImage
\* on its own has emitted its file name.
settled(j) ==
    IF \E i \in DOMAIN j.uploads : j.uploads[i].stage = "failed"
    THEN [job |-> NoJob, request |-> {}, outcome |-> "error"]
    ELSE IF \A i \in DOMAIN j.uploads : j.uploads[i].stage = "done"
    THEN IF j.kind = "uploadImage"
         THEN [job |-> NoJob, request |-> {}, outcome |-> "value"]
         ELSE [job |-> NoJob, request |-> {Save(j.kind, j.id, j.price)},
               outcome |-> "pending"]
    ELSE [job |-> j, request |-> {}, outcome |-> "pending"]

\* createProduct(productLike, imageFileList)
CreateProduct ==
    \E price \in {20} : \E images \in FileLists :
        LET r == start("createProduct", "", price, images) IN
        /\ job = NoJob
        /\ requests = EmptyBag
        /\ Send(r.request)
        /\ job' = r.job
        /\ move' = [NoMove EXCEPT !.op = "createProduct",
                                  !.net = Cardinality(r.request) + r.posts,
                                  !.posts = r.posts,
                                  !.outcome = r.outcome,
                                  !.images = images]
        /\ UNCHANGED <<productsCache, productCache, catalogue>>
        /\ AuthIdle

\* updateProduct(id, productLike, imageFileList)
UpdateProductImages ==
    \E price \in {20} : \E images \in FileLists :
        LET r == start("updateProduct", "p1", price, images) IN
        /\ job = NoJob
        /\ requests = EmptyBag
        /\ Send(r.request)
        /\ job' = r.job
        /\ move' = [NoMove EXCEPT !.op = "updateProduct", !.arg = "p1",
                                  !.net = Cardinality(r.request) + r.posts,
                                  !.posts = r.posts,
                                  !.outcome = r.outcome,
                                  !.images = images]
        /\ UNCHANGED <<productsCache, productCache, catalogue>>
        /\ AuthIdle

\* uploadImage(imageFile), called on its own
UploadImage ==
    \E file \in Files :
        /\ job = NoJob
        /\ requests = EmptyBag
        /\ job' = [kind |-> "uploadImage", id |-> "", price |-> 0,
                   uploads |-> << uploadImage(file) >>]
        /\ move' = [NoMove EXCEPT !.op = "uploadImage", !.net = 1, !.posts = 1,
                                  !.outcome = "pending", !.file = 1]
        /\ UNCHANGED <<productsCache, productCache, catalogue, requests>>
        /\ AuthIdle

\* convertToJpeg finishes for a file, before its upload or as the fallback
\* after a refused upload.
ConvertToJpeg ==
    \E i \in DOMAIN job.uploads : \E ok \in BOOLEAN :
        LET upload == job.uploads[i]
            after == IF ~ok THEN gaveUp(upload)
                     ELSE IF upload.stage = "convert" THEN converted(upload)
                     ELSE reconverted(upload)
            r == settled([job EXCEPT !.uploads[i] = after])
        IN
        /\ upload.stage \in {"convert", "reconvert"}
        /\ job' = r.job
        /\ UNCHANGED requests
        /\ move' = [NoMove EXCEPT !.op = "convertToJpeg", !.file = i, !.ok = ok,
                                  !.net = after.posts - upload.posts,
                                  !.posts = after.posts - upload.posts,
                                  !.outcome = r.outcome]
        /\ UNCHANGED <<productsCache, productCache, catalogue>>
        /\ AuthIdle

\* The answer to POST /files/product arrives for a file.
UploadResponse ==
    \E i \in DOMAIN job.uploads : \E error \in {Undefined} \cup {Given(e) : e \in UploadErrors} :
        LET upload == job.uploads[i]
            after == IF error = Undefined THEN uploaded(upload)
                     ELSE IF upload.stage = "post"
                     THEN uploadFailed(upload, CHOOSE e \in error : TRUE)
                     ELSE gaveUp(upload)
            r == settled([job EXCEPT !.uploads[i] = after])
        IN
        /\ upload.stage \in {"post", "repost"}
        /\ job' = r.job
        /\ Send(r.request)
        /\ move' = [NoMove EXCEPT !.op = "uploadResponse", !.file = i,
                                  !.ok = (error = Undefined),
                                  !.net = Cardinality(r.request),
                                  !.outcome = r.outcome]
        /\ UNCHANGED <<productsCache, productCache, catalogue>>
        /\ AuthIdle

\* The caches hold nothing, or the first product and the full list.
UploadInit ==
    /\ ServiceInit
    /\ storage = Null
    /\ page = NoPage
    /\ failure = NoFailure
    /\ catalogue = Shelf
    /\ \/ /\ productsCache = NoEntries
          /\ productCache = NoEntries
       \/ /\ productsCache = ("9-0-" :> [count |-> 2,
                                         products |-> << Shelf["p1"], Shelf["p2"] >>])
          /\ productCache = ("p1" :> Shelf["p1"])
    /\ requests = EmptyBag
    /\ job = NoJob
    /\ move = NoMove

UploadNext ==
    \/ CreateProduct
    \/ UpdateProductImages
    \/ UploadImage
    \/ ConvertToJpeg
    \/ UploadResponse
    \/ SaveResponse

UploadSpec == UploadInit /\ [][UploadNext]_vars

-----------------------------------------------------------------------------
(* Properties *)

IsCall(name) == last.op = name
IsResponse == last.op \in {"loginResponse", "registerResponse", "checkResponse"}

\* C1 (as stated): in every reachable state the user is present iff the
\* in-memory token is present iff the status is Authenticated.
C1_UserTokenStatusAgree ==
    /\ (_user # Null) <=> (_token # Null)
    /\ (_token # Null) <=> (authStatus(Cur) = "authenticated")

\* C1 (amended): the user is present iff the status is Authenticated, and once
\* the status is no longer Checking the in-memory token is present iff the user
\* is; while the status is Checking there is no user, whether or not a token
\* was loaded from storage.
C1_UserTokenStatusAfterChecking ==
    /\ (_user # Null) <=> (_authStatus = "authenticated")
    /\ (_user # Null) <=> (authStatus(Cur) = "authenticated")
    /\ (_authStatus # "checking") => ((_token # Null) <=> (_user # Null))
    /\ (_authStatus = "checking") => (_user = Null)

C1_Witness ==
    /\ _authStatus = "checking"
    /\ _token # Null
    /\ _user = Null
    /\ pending.check > 0

\* C2: a checkStatus() called while the persisted token's decoded expiration
\* lies in the past returns false, issues no network call and leaves the
\* status NotAuthenticated with no persisted token.
C2_ExpiredTokenChecksLocally ==
    (IsCall("checkStatus") /\ last.expired) =>
        /\ last.ret = "false"
        /\ last.net = 0
        /\ _authStatus = "not-authenticated"
        /\ storage = Null

\* C3: a checkStatus() made less than CACHE_DURATION after the last successful
\* check (no logout, failure or invalidation in between, token not within
\* TOKEN_REFRESH_THRESHOLD of its expiry) returns true and issues no network
\* call; under the same conditions a checkStatus() made once CACHE_DURATION
\* has elapsed issues exactly one network call.
C3_CacheWindow ==
    /\ (IsCall("checkStatus") /\ last.age = "fresh" /\ ~last.near) =>
           (last.net = 0 /\ last.ret = "true")
    /\ (IsCall("checkStatus") /\ last.age = "stale" /\ ~last.near) =>
           (last.net = 1 /\ last.ret = "pending")

C3_Witness ==
    /\ IsCall("checkStatus")
    /\ last.age = "stale"
    /\ ~last.near
    /\ hitSince
    /\ last.net = 1
    /\ storage = "jwt.long"

\* C4: checkStatus() answers from the cache, without a network call, exactly
\* when the cache is valid, less than CACHE_DURATION has passed since
\* lastChecked and no known token expiration is at most
\* TOKEN_REFRESH_THRESHOLD away.
C4_CacheHitIff ==
    IsCall("checkStatus") =>
        /\ (last.path = "cache") <=> last.hit
        /\ (last.path = "cache") => (last.net = 0)

\* An elapsed time of exactly CACHE_DURATION on a valid cache, token not near
\* its expiry: a miss that goes to the network.
C4_Witness ==
    /\ IsCall("checkStatus")
    /\ authCache.isValid
    /\ now - authCache.lastChecked = CACHE_DURATION
    /\ ~last.near
    /\ last.path = "network"

\* C5: forceAuthCheck() with a persisted token that is not locally expired
\* issues a check-status request, whatever the cache held before.
C5_ForceAlwaysAsks ==
    (IsCall("forceAuthCheck") /\ last.hadToken /\ ~last.expired) =>
        (last.net = 1 /\ last.path = "network")

\* The cache was usable right before the forced check.
C5_Witness ==
    /\ IsCall("forceAuthCheck")
    /\ last.hit
    /\ ~last.expired
    /\ last.net = 1

\* C6: forceAuthCheck() called while the token's decoded expiration is already
\* in the past logs out and returns false without a network round trip.
C6_ForceOnExpiredToken ==
    (IsCall("forceAuthCheck") /\ last.expired) =>
        /\ last.net = 0
        /\ last.ret = "false"
        /\ _authStatus = "not-authenticated"
        /\ storage = Null

\* The steps after which the cache is said to be reset.
FailedResponse(name) == last.op = name /\ ~last.ok
ExplicitInvalidation ==
    \/ IsCall("forceAuthCheck")
    \/ (IsCall("tick") /\ last.path # "none")

\* C7 (as stated): right after logout(), a failed check-status, a failed
\* login, a failed register or an explicit invalidation the cache is exactly
\* {isValid = false, lastChecked = 0, tokenExpiration = none}.
C7_CacheResetEverywhere ==
    ( \/ IsCall("logout")
      \/ FailedResponse("checkResponse")
      \/ FailedResponse("loginResponse")
      \/ FailedResponse("registerResponse")
      \/ ExplicitInvalidation ) => (authCache = InvalidCache)

\* C7 (amended): right after logout(), a failed login, a failed register or an
\* explicit invalidation the cache is exactly {false, 0, none}; right after a
\* failed check-status it is {false, the instant of the failure, none}.
C7_CacheResetExceptFailedCheckStamp ==
    /\ ( \/ IsCall("logout")
         \/ FailedResponse("loginResponse")
         \/ FailedResponse("registerResponse")
         \/ ExplicitInvalidation ) => (authCache = InvalidCache)
    /\ FailedResponse("checkResponse") =>
           (authCache = [isValid |-> FALSE, lastChecked |-> now,
                         tokenExpiration |-> NoExp])

\* A failed check-status response has just been processed.
C7_Witness ==
    /\ FailedResponse("checkResponse")
    /\ authCache.lastChecked = now
    /\ ~authCache.isValid
    /\ _authStatus = "not-authenticated"

\* C8: a successful check-status response that arrives after logout(), with no
\* login, register or checkStatus call made since that logout, leaves the
\* session Authenticated with the returned user and the returned token
\* persisted.
C8_LateResponseReauthenticates ==
    (last.op = "checkResponse" /\ last.ok /\ sinceLogout) =>
        /\ _authStatus = "authenticated"
        /\ authStatus(Cur) = "authenticated"
        /\ _user = last.resp.user
        /\ _token = last.resp.token
        /\ storage = last.resp.token

C8_Witness ==
    /\ last.op = "checkResponse"
    /\ last.ok
    /\ sinceLogout
    /\ _authStatus = "authenticated"
    /\ _user # Null
    /\ storage # Null

\* Service states a response may find, whatever produced them.
PriorStates ==
    [ _authStatus : {"checking", "authenticated", "not-authenticated"},
      _user       : Users \cup {Null},
      _token      : {Null, "jwt.long"},
      storage     : {Null, "jwt.short"},
      authCache   : { InvalidCache,
                      [isValid |-> FALSE, lastChecked |-> StartTime,
                       tokenExpiration |-> NoExp],
                      [isValid |-> TRUE, lastChecked |-> StartTime,
                       tokenExpiration |-> extractTokenExpiration("jwt.old")] } ]

\* What one response does to a service state.
Outcome(op, resp, s, t) ==
    CASE op = "loginResponse" ->
             IF resp = HttpError THEN handleLoginError(s) ELSE authSucceeded(s, resp, t)
      [] op = "registerResponse" ->
             IF resp = HttpError THEN handleRegisterError(s) ELSE authSucceeded(s, resp, t)
      [] op = "checkResponse" ->
             IF resp = HttpError THEN checkFailed(s, t) ELSE checkSucceeded(s, resp, t)

\* C9: after a response has been processed, the session state, the persisted
\* token and the cache are what that response would produce from any prior
\* state: nothing written by an earlier response survives.
C9_LastWriterWins ==
    IsResponse =>
        \A s \in PriorStates : Cur = Outcome(last.op, last.resp, s, now)

\* Two overlapping requests, the earlier response a different session.
C9_Witness ==
    /\ IsResponse
    /\ Pending = 0
    /\ last.ok
    /\ earlier \in AuthResponses
    /\ earlier.token # last.resp.token
    /\ earlier.user # last.resp.user
    /\ _user = last.resp.user
    /\ storage = last.resp.token

LoggedOut ==
    [_authStatus |-> "not-authenticated", _user |-> Null, _token |-> Null,
     storage |-> Null, authCache |-> InvalidCache]

\* C10: after one logout() and after two in a row the state is the same:
\* NotAuthenticated, no user, no in-memory token, no persisted token, cache
\* invalidated; a further logout() changes nothing.
C10_LogoutIdempotent ==
    /\ (logoutRun >= 1) => (Cur = LoggedOut)
    /\ logout(logout(Cur)) = logout(Cur)
    /\ logout(Cur) = LoggedOut

C10_Witness ==
    /\ logoutRun = 2
    /\ Cur = LoggedOut
    /\ pending.login > 0

\* C11: a failed login or register, whatever the state before, leaves the
\* status NotAuthenticated, no user, no in-memory token, no persisted token
\* and the cache invalidated.
C11_FailedAuthClearsSession ==
    (FailedResponse("loginResponse") \/ FailedResponse("registerResponse")) =>
        /\ _authStatus = "not-authenticated"
        /\ authStatus(Cur) = "not-authenticated"
        /\ _user = Null
        /\ _token = Null
        /\ storage = Null
        /\ authCache = InvalidCache

\* A login fails on a session that was authenticated.
C11_Witness ==
    /\ FailedResponse("loginResponse")
    /\ last.from = "authenticated"
    /\ Cur = LoggedOut

\* C12: every login() and register() whose request completes delivers a
\* result value, success or failure, and never an error.
C12_AlwaysAResultValue ==
    (last.op \in {"loginResponse", "registerResponse"}) =>
        (last.signal \in {"success", "failure"})

\* The expiration a token's payload states, in milliseconds.
DecodedExpiry(token) ==
    IF Payload(token).decodes /\ Payload(token).exp # 0
    THEN {1000 * Payload(token).exp}
    ELSE {}

\* C13: after a successful login the session holds the returned user and
\* token (in memory and persisted), the status is Authenticated, the cache is
\* valid with lastChecked the instant of the response and tokenExpiration the
\* expiration decoded from the token (or none), and the caller gets a success.
C13_LoginInstallsSession ==
    (last.op = "loginResponse" /\ last.ok) =>
        /\ _user = last.resp.user
        /\ _token = last.resp.token
        /\ storage = last.resp.token
        /\ _authStatus = "authenticated"
        /\ authStatus(Cur) = "authenticated"
        /\ authCache = [isValid |-> TRUE, lastChecked |-> now,
                        tokenExpiration |-> DecodedExpiry(last.resp.token)]
        /\ last.signal = "success"

\* A login that replaces a session and carries a token with an expiration.
C13_Witness ==
    /\ last.op = "loginResponse"
    /\ last.ok
    /\ last.from = "authenticated"
    /\ authCache.tokenExpiration # NoExp
    /\ authCache.lastChecked = now
    /\ now > StartTime

\* C14: a successful check-status response returns true and leaves the
\* session and the cache as a successful login with the same {token, user}
\* at the same instant would; a failed one returns false and leaves the status
\* NotAuthenticated, no user and no in-memory or persisted token.
C14_CheckResponseAsLogin ==
    [][ (last'.op = "checkResponse") =>
            IF last'.ok
            THEN /\ last'.ret = "true"
                 /\ Cur' = authSucceeded(Cur, last'.resp, now)
            ELSE /\ last'.ret = "false"
                 /\ _authStatus' = "not-authenticated"
                 /\ _user' = Null
                 /\ _token' = Null
                 /\ storage' = Null ]_vars

C14_Witness ==
    /\ last.op = "checkResponse"
    /\ last.ok
    /\ authCache.isValid
    /\ _user = last.resp.user
    /\ last.from = "checking"

\* C15: checkStatus() called with no persisted token returns false, issues no
\* network call and leaves the status NotAuthenticated, no user, no in-memory
\* token and the cache invalidated.
C15_NoTokenMeansLoggedOut ==
    (IsCall("checkStatus") /\ ~last.hadToken) =>
        /\ last.ret = "false"
        /\ last.net = 0
        /\ Cur = LoggedOut

\* The first check of a service constructed without a persisted token.
C15_Witness ==
    /\ IsCall("checkStatus")
    /\ ~last.hadToken
    /\ last.from = "checking"
    /\ _authStatus = "not-authenticated"

\* A step that makes a determination: a checkStatus() that resolves, a login
\* or register that completes, a logout.
Determines(step) ==
    \/ step.op \in {"loginResponse", "registerResponse", "checkResponse", "logout"}
    \/ (step.op \in {"checkStatus", "forceAuthCheck"} /\ step.ret \in {"true", "false"})

\* C16: once a determination has been made authStatus is never Checking again,
\* and whenever it is not Checking it is Authenticated iff a user is set and
\* NotAuthenticated otherwise.
C16_CheckingOnlyAtFirst ==
    [][ /\ (Determines(last') \/ authStatus(Cur) # "checking") =>
               (authStatus(Cur)' # "checking")
        /\ (authStatus(Cur)' # "checking") =>
               /\ (authStatus(Cur)' = "authenticated") <=> (_user' # Null)
               /\ (authStatus(Cur)' = "not-authenticated") <=> (_user' = Null) ]_vars

\* Time passes on a session that was determined to be logged out.
C16_Witness ==
    /\ last.op = "time"
    /\ authStatus(Cur) = "not-authenticated"
    /\ _user = Null

\* C17: in every reachable state the in-memory token equals the persisted one.
C17_TokenMirrorsStorage == _token = storage

C17_Witness ==
    /\ _token = storage
    /\ _token # Null
    /\ _authStatus = "authenticated"
    /\ pending.check > 0

\* The timer callback would refresh: the status is Authenticated and the
\* cached token expiration is within the threshold.
RefreshDue == _authStatus = "authenticated" /\ isTokenNearExpiration(Cur, now)

\* The timer callback has just issued a check-status request.
TickRefreshed == IsCall("tick") /\ last.net = 1 /\ last.path = "network"

\* A call or a response, not the timer, has ended the condition.
RefreshCalledOff == ~RefreshDue /\ last.op \notin {"tick", "time"}

\* C18: when the status is Authenticated and the cached token expiration is
\* within TOKEN_REFRESH_THRESHOLD, the timer alone leads to a check-status
\* request issued by its callback, unless a call or a response ends that
\* condition first (an emission must still lie within the clock's horizon).
C18_SchedulerEventuallyRefreshes ==
    (RefreshDue /\ (tickDue \/ now < EndTime)) ~> (TickRefreshed \/ RefreshCalledOff)

\* The refresh of a session whose token had time left when it was installed.
C18_Witness ==
    /\ TickRefreshed
    /\ last.from = "authenticated"
    /\ storage = "jwt.long"
    /\ pending.check = 1

\* C19: right after a successful login whose token expires more than
\* TOKEN_REFRESH_THRESHOLD ahead, isTokenNearExpiration() is false; and an
\* emission of the timer that finds the status Authenticated, the last
\* successful check undisturbed and at most TOKEN_REFRESH_THRESHOLD left on
\* the token invalidates the cache and issues exactly one check-status request.
C19_RefreshAtThreshold ==
    /\ ( /\ last.op = "loginResponse"
         /\ last.ok
         /\ \E e \in DecodedExpiry(last.resp.token) : e - now > TOKEN_REFRESH_THRESHOLD )
       => ~isTokenNearExpiration(Cur, now)
    /\ ( /\ IsCall("tick")
         /\ last.from = "authenticated"
         /\ last.age # "none"
         /\ last.near )
       => ( /\ last.net = 1
            /\ last.path = "network"
            /\ authCache = InvalidCache )

\* The token had sixteen minutes left when it was installed; the emission six
\* or more minutes later refreshes.
C19_Witness ==
    /\ IsCall("tick")
    /\ last.age # "none"
    /\ last.near
    /\ storage = "jwt.long"
    /\ now - StartTime >= 6 * TimerPeriod
    /\ authCache = InvalidCache
    /\ pending.check > 0

\* C20: an emission of the timer while the status is not Authenticated changes
\* neither the session, nor the persisted token, nor the cache, and issues no
\* request.
C20_IdleTickChangesNothing ==
    [][ (last'.op = "tick" /\ authStatus(Cur) # "authenticated") =>
            /\ Cur' = Cur
            /\ pending' = pending
            /\ last'.net = 0 ]_vars

\* An emission while the first check of a persisted token is still in flight.
C20_Witness ==
    /\ IsCall("tick")
    /\ last.from = "checking"
    /\ storage # Null
    /\ pending.check > 0
    /\ last.path = "none"

\* C21: while the cached token expiration is none, checkStatus() (called
\* directly, by forceAuthCheck() or by the timer) never takes the local-expiry
\* logout path, and with a persisted token it answers from the cache exactly
\* when isValid is true and less than CACHE_DURATION has passed since
\* lastChecked.
C21_UnknownExpirationNeverExpires ==
    [][ /\ (last'.op = "checkStatus" /\ authCache.tokenExpiration = NoExp) =>
               /\ last'.path # "expired"
               /\ isCacheValid(Cur, now) <=>
                      (authCache.isValid /\ now - authCache.lastChecked < CACHE_DURATION)
               /\ (storage # Null) =>
                      ((last'.path = "cache") <=>
                           (authCache.isValid /\ now - authCache.lastChecked < CACHE_DURATION))
        /\ (last'.op \in {"forceAuthCheck", "tick"}) => (last'.path # "expired") ]_vars

\* A session whose token does not decode: the check within the cache window
\* is a hit, the one after it goes to the network.
C21_Witness ==
    /\ IsCall("checkStatus")
    /\ storage = "jwt.bad"
    /\ authCache.tokenExpiration = NoExp
    /\ authCache.isValid
    /\ now - authCache.lastChecked >= CACHE_DURATION
    /\ hitSince
    /\ last.path = "network"

\* C22: getCacheInfo() and a checkStatus() answered from the cache change
\* neither the user, the status, the in-memory token, the persisted token nor
\* any of the three cache fields, and issue no request; the snapshot carries the
\* cache fields and the time since lastChecked.
C22_ReadsChangeNothing ==
    [][ /\ (last'.op = "getCacheInfo") =>
               /\ Cur' = Cur
               /\ pending' = pending
               /\ last'.net = 0
               /\ last'.info = [isValid |-> authCache.isValid,
                                lastChecked |-> authCache.lastChecked,
                                tokenExpiration |-> authCache.tokenExpiration,
                                timeSinceLastCheck |-> now - authCache.lastChecked]
        /\ (last'.op = "checkStatus" /\ last'.path = "cache") =>
               /\ Cur' = Cur
               /\ pending' = pending
               /\ last'.net = 0 ]_vars

\* A snapshot taken one period after a check, on a session whose checkStatus()
\* was answered from the cache.
C22_Witness ==
    /\ last.op = "getCacheInfo"
    /\ hitSince
    /\ last.info.isValid
    /\ last.info.timeSinceLastCheck = TimerPeriod
    /\ authCache.lastChecked = now - TimerPeriod

\* The mounted page has just been told that its request failed.
PageFailure(route) ==
    /\ page.route = route
    /\ last.op = (IF route = "login" THEN "loginResponse" ELSE "registerResponse")

AnyPageFailure == PageFailure("login") \/ PageFailure("register")

\* C23: a failure with status 0 makes login() and register() deliver the
\* failure result with the fixed connectivity message, whatever the body of
\* the failure is, and that message is what the page shows.
C23_NoResponseIsConnectivityMessage ==
    (AnyPageFailure /\ failure.status = 0) =>
        /\ last.signal = "failure"
        /\ last.message = UnableToConnect
        /\ page.errorMessage = UnableToConnect
        /\ page.hasError

\* A login without a response whose failure nevertheless carries a message
\* that the 401 branch would have recognised.
C23_Witness ==
    /\ PageFailure("login")
    /\ failure.status = 0
    /\ failure.message = "string"
    /\ failure.text = "Incorrect password"
    /\ last.message = UnableToConnect

\* C24: for a failure with status 0 the error type the page derives from the
\* translated message is general, on the login page and on the register page.
C24_NoResponseIsGeneral ==
    (AnyPageFailure /\ failure.status = 0) => page.errorType = "general"

\* C25: every login failure with status 401 ends with the error type
\* credentials on the login page, and for the message "Incorrect password" the
\* message shown contains "Incorrect password".
C25_Login401IsCredentials ==
    ( /\ PageFailure("login")
      /\ failure.status = 401
      /\ failure.message \in {"string", "absent"} ) =>
        /\ page.errorType = "credentials"
        /\ (failure.message = "string" /\ failure.text = "Incorrect password") =>
               includes(page.errorMessage, "Incorrect password")

DuplicateKey == "Key (email)=(a@b.com) already exists."

DuplicateKeyFailure ==
    /\ PageFailure("register")
    /\ failure.status = 400
    /\ failure.message = "string"
    /\ failure.text = DuplicateKey

\* C26 as stated: a register failure with status 400 and the message
\* "Key (email)=(a@b.com) already exists." produces the message "This email
\* address is already registered." and the error type email-exists.
C26_DuplicateKeyCleanedMessage ==
    DuplicateKeyFailure =>
        /\ last.message = AlreadyRegistered
        /\ page.errorType = "email-exists"

\* C26, amended: that failure produces the fixed message "This email is already
\* registered. Please try signing in instead or use a different email
\* address." and the error type email-exists; "This email address is already
\* registered." is what cleanErrorMessage makes of the backend message, which
\* the duplicate-email branch does not use.
C26_DuplicateKeyFixedMessage ==
    DuplicateKeyFailure =>
        /\ last.signal = "failure"
        /\ last.message = EmailRegistered
        /\ page.errorMessage = EmailRegistered
        /\ page.errorType = "email-exists"
        /\ cleanErrorMessage(failure.text) = AlreadyRegistered

C26_Witness ==
    /\ DuplicateKeyFailure
    /\ page.hasError
    /\ page.errorMessage = EmailRegistered
    /\ ~page.isPosting

\* C27: a register failure with status 409 produces the fixed
\* already-registered message and the error type email-exists for every body
\* of the failure, an empty or absent message included.
C27_ConflictIsEmailExists ==
    (PageFailure("register") /\ failure.status = 409) =>
        /\ last.signal = "failure"
        /\ last.message = EmailRegistered
        /\ page.errorMessage = EmailRegistered
        /\ page.errorType = "email-exists"

\* (409, "")
C27_Witness ==
    /\ PageFailure("register")
    /\ failure.status = 409
    /\ failure.message = "string"
    /\ failure.text = ""
    /\ page.errorType = "email-exists"

\* The rules of the 400 branch of handleLoginError that come before its
\* fallback.
MatchesLogin400Rule(text) ==
    LET errorMessage == toLowerCase(text) IN
    \/ includes(errorMessage, "email") /\ includes(errorMessage, "invalid")
    \/ includes(errorMessage, "password") /\ includes(errorMessage, "required")
    \/ includes(errorMessage, "email") /\ includes(errorMessage, "required")

\* C28: for a login failure with status 400 whose message matches none of the
\* rules, the message returned is the cleaned backend message when the cleaning
\* leaves text, and "Please check that all fields are filled correctly." when
\* it leaves nothing.
C28_Login400FallsBackToGeneric ==
    ( /\ PageFailure("login")
      /\ failure.status = 400
      /\ failure.message = "string"
      /\ failure.text # ""
      /\ ~MatchesLogin400Rule(failure.text) ) =>
        last.message = IF cleanMessage(failure.text) = ""
                       THEN CheckAllFields
                       ELSE cleanErrorMessage(failure.text)

\* C29: for every message, cleanErrorMessage returns a string that is not
\* empty, whose first character is not a lower-case letter and whose last
\* character is ".", "!" or "?".
C29_CapitalizedAndPunctuated ==
    (last.op = "cleanErrorMessage") =>
        /\ last.message # ""
        /\ ~includes(LowerCaseLetters, CharAt(last.message, 1))
        /\ CharAt(last.message, Len(last.message)) \in {".", "!", "?"}

\* A message of which the substitutions leave nothing.
C29_Witness ==
    /\ last.op = "cleanErrorMessage"
    /\ failure.text = "ValidationError:"
    /\ cleanMessage(failure.text) = ""
    /\ last.message = "."

\* C30: in every reachable state a valid cache implies that the status is
\* Authenticated, a user is set and a token is persisted.
C30_ValidCacheMeansSession ==
    authCache.isValid =>
        /\ _authStatus = "authenticated"
        /\ authStatus(Cur) = "authenticated"
        /\ _user # Null
        /\ storage # Null

\* A valid cache while the response of an earlier request is still to come
\* and a logout has been made in between.
C30_Witness ==
    /\ authCache.isValid
    /\ sinceLogout
    /\ last.op = "checkResponse"
    /\ Pending > 0
    /\ _user # Null
    /\ storage # Null

\* C31: an emission of the timer issues a request only if a successful
\* response (login, register or check-status) has been processed since the
\* last refresh; a refresh uses that success up, and only a successful response
\* brings a new one. So between two successful responses the scheduler issues
\* at most one request, however long its response takes.
C31_OneRefreshPerSuccess ==
    [][ /\ (last'.op = "tick" /\ okSince = {}) =>
               (last'.net = 0 /\ pending' = pending)
        /\ (last'.op = "tick" /\ last'.net = 1) => okSince' = {}
        /\ (okSince = {} /\ okSince' # {}) =>
               /\ last'.op \in {"loginResponse", "registerResponse", "checkResponse"}
               /\ last'.ok ]_vars

\* An emission while the status is Authenticated and the persisted token is
\* near its expiration, with the request of the earlier refresh still in
\* flight and no successful response since: nothing is sent.
C31_Witness ==
    /\ IsCall("tick")
    /\ last.from = "authenticated"
    /\ last.near
    /\ last.age = "none"
    /\ last.net = 0
    /\ pending.check > 0
    /\ authCache = InvalidCache
    /\ ~sinceLogout

\* C32: a checkStatus() called after a successful response, before any
\* refresh, logout or failure, while a token is persisted: if the token's
\* decoded expiration is in the past, it logs out and returns false without a
\* request; if the expiration is in the future but at most the refresh
\* threshold away, it is a cache miss and sends a request, however recent the
\* response is.
C32_DyingTokenSkipsCache ==
    [][ (last'.op = "checkStatus" /\ okSince # {} /\ storage # Null) =>
            /\ (\E e \in extractTokenExpiration(storage) : e < now) =>
                   /\ last'.path = "expired"
                   /\ last'.net = 0
                   /\ last'.ret = "false"
                   /\ pending' = pending
                   /\ Cur' = logout(Cur)
            /\ (\E e \in extractTokenExpiration(storage) :
                    e > now /\ e - now <= TOKEN_REFRESH_THRESHOLD) =>
                   /\ last'.path = "network"
                   /\ last'.net = 1
                   /\ last'.ret = "pending"
                   /\ pending' = [pending EXCEPT !.check = @ + 1]
                   /\ Cur' = Cur ]_vars

\* A login has just answered with a token that expired a minute ago, and the
\* checkStatus() that follows at once logs the session out.
C32_Witness ==
    /\ IsCall("checkStatus")
    /\ last.from = "authenticated"
    /\ last.age = "fresh"
    /\ last.expired
    /\ last.path = "expired"
    /\ now = StartTime
    /\ storage = Null
    /\ _authStatus = "not-authenticated"

\* The same with a token that still has two minutes: a request is sent.
C32_NearTokenAsks ==
    /\ IsCall("checkStatus")
    /\ last.age = "fresh"
    /\ last.near
    /\ ~last.expired
    /\ last.path = "network"
    /\ storage = "jwt.short"
    /\ authCache.isValid

\* C33: a getProducts call whose key (limit, offset, gender, omitted options
\* replaced by 9, 0 and '') has a response in the list cache sends no request
\* and returns that response; a response received is stored under the key of
\* its call; and a key leaves the list cache only by clearProductsCache, by
\* invalidateProductsListCache for that key or by invalidateProductsListCache
\* without options.
C33_ListCacheServes ==
    [][ /\ \A options \in ListOptions :
               ( /\ move'.op = "getProducts"
                 /\ move'.options = options
                 /\ has(productsCache, ListKey(options)) ) =>
                   /\ move'.net = 0
                   /\ move'.outcome = "value"
                   /\ move'.value = {get(productsCache, ListKey(options))}
                   /\ requests' = requests
                   /\ productsCache' = productsCache
        /\ (move'.op = "getProductsResponse" /\ move'.ok) =>
               /\ has(productsCache', move'.arg)
               /\ move'.value = {get(productsCache', move'.arg)}
        /\ \A key \in DOMAIN productsCache :
               ~has(productsCache', key) =>
                   \/ move'.op = "clearProductsCache"
                   \/ /\ move'.op = "invalidateProductsListCache"
                      /\ (move'.ok => move'.arg = key) ]_vars

\* getProducts({}) is answered from the cache, with a list whose product was
\* updated after the list had been fetched.
C33_Witness ==
    /\ move.op = "getProducts"
    /\ move.options = NoOptions
    /\ move.arg = "9-0-"
    /\ move.net = 0
    /\ move.value = {get(productsCache, "9-0-")}
    /\ \E response \in move.value :
           response.count = 2 /\ response.products[1].price = 20
    /\ InFlight = 0

\* C34: when updateProduct has succeeded for a product, no other version of
\* that product is left in the product cache, under its id or under its slug,
\* nor in any cached list, so every read served from a cache returns the
\* updated product.
C34_NoStaleCopyAfterUpdate ==
    (move.op = "updateProductResponse" /\ move.ok) =>
        \A product \in move.value :
            /\ \A key \in DOMAIN productCache :
                   productCache[key].id = product.id =>
                       productCache[key] = product
            /\ \A key \in DOMAIN productsCache :
                   \A i \in DOMAIN productsCache[key].products :
                       productsCache[key].products[i].id = product.id =>
                           productsCache[key].products[i] = product

\* C35: Image validation is all-or-nothing. When createProduct or
\* updateProduct is called with a file list in which some file has a type
\* that is not allowed or is larger than 5MB, the call fails with the
\* validation error, no upload is posted, no create or patch request is sent,
\* no upload is started, and both product caches stay as they were.
C35_ValidationIsAllOrNothing ==
    [][ \A files \in move'.images :
          ( /\ move'.op \in {"createProduct", "updateProduct"}
            /\ \E i \in 1..Len(files) :
                   \/ files[i].type \notin ALLOWED_IMAGE_FORMATS
                   \/ files[i].size > 5 * 1024 * 1024 )
          => /\ move'.outcome = "error"
             /\ move'.net = 0
             /\ move'.posts = 0
             /\ requests' = requests
             /\ job' = job
             /\ productsCache' = productsCache
             /\ productCache' = productCache ]_vars

\* updateProduct was called with an image that is fine and one that is one
\* byte too large, while both caches held entries: the call failed.
C35_Witness ==
    /\ move.op = "updateProduct"
    /\ move.images = Given(<< [type |-> "image/png", size |-> MAX_FILE_SIZE],
                              [type |-> "image/png", size |-> MAX_FILE_SIZE + 1] >>)
    /\ move.outcome = "error"
    /\ has(productCache, "p1")
    /\ has(productsCache, "9-0-")
    /\ job = NoJob
    /\ requests = EmptyBag

C36_ConvertedTwice ==
    /\ move.op = "convertToJpeg"
    /\ move.ok
    /\ move.file \in DOMAIN job.uploads
    /\ job.uploads[move.file].original = "image/webp"
    /\ job.uploads[move.file].sent = "image/jpeg"
    /\ job.uploads[move.file].stage = "repost"
    /\ job.uploads[move.file].posts = 2

====
